---------------------------- MODULE Spec2Model ----------------------------
(***************************************************************************)
(* Model of the esp32-dataformat storage components.                       *)
(*                                                                         *)
(* CSpiffsSystem (src/unnamed/part_004, version 1.4.0.0): the flat SPIFFS  *)
(* filesystem, the transaction replay endTransaction(), clearDir() and the *)
(* JSON commands.  File names are sequences of one-character strings       *)
(* relative to "/spiffs/" (<<"a","$">> is the file /spiffs/a$), file       *)
(* contents are sequences of bytes.  The filesystem is the function fs     *)
(* from the names that exist to their contents.                            *)
(*                                                                         *)
(* endTransaction and the 'trans' commands are modelled one filesystem     *)
(* call per step, so that a power loss (Crash) can fall between any two    *)
(* of them.  Filesystem primitives are individually atomic and durable     *)
(* (spec section 4.1) and succeed whenever POSIX lets them succeed.        *)
(***************************************************************************)
EXTENDS Integers, Sequences, FiniteSets, TLC

VARIABLES
    js,          \* a CJsonReadStream object, and the bytes it was given
    ota,         \* the COTASystem statics and the esp_ota session behind them
    buf,         \* the CBufferSystem object: its fields, and what made the buffer
    fs,          \* flash content: [existing names -> byte sequences]
    pc,          \* position of the firmware ("off" = before init())
    mounted,     \* /spiffs is registered in the VFS
    caller,      \* who called endTransaction: "init", "end", "cancel", "api"
    retTo,       \* pc to go back to after a direct endTransaction call
    todo,        \* entries the open directory stream has still to return
    cur,         \* fname of the entry being processed
    res,         \* endTransaction's local res / its return value
    clearQ,      \* 'clear' directories still to be handed to clearDir
    transFiles,  \* clearDir's list transFiles
    cdDir,       \* clearDir's dirName
    cdRes,       \* clearDir: res, the files staged so far
    mWriteQueue, \* registered write-event handlers
    trace,       \* notifications and mutating calls of the running command
    lastLock,    \* per handler: the last lock value delivered to it
    answer,      \* the JSON answer of the last command
    \* history of the run, read by the properties only
    snap,        \* fs when the current replay began
    snapSet,     \* a replay that began has not yet returned
    crashes,     \* power losses since the current replay/command began
    crashMk,     \* one of them fell while the marker existed
    cleanSince,  \* endTransaction returned and nothing was written since
    second,      \* the running endTransaction call follows such a return
    opened,      \* the running endTransaction call could open the root
    depth,       \* nesting of the running endTransaction call
    cmd0,        \* fs when the running 'trans' command began
    cmdKind,     \* the running or last command: "none", "end", "wr", ...
    cmdIn,       \* its input fields
    cmdClear,    \* the 'clear' list of the running 'trans:end'
    crashPhase   \* "before"/"after": where power was lost in a 'trans:end'

vars == <<js, ota, buf, fs, pc, mounted, caller, retTo, todo, cur, res, clearQ, transFiles, cdDir, cdRes,
          mWriteQueue, trace, lastLock, answer, snap, snapSet, crashes,
          crashMk, cleanSince, second, opened, depth, cmd0, cmdKind, cmdIn,
          cmdClear, crashPhase>>

(***************************************************************************)
(* Bounds of the model.                                                    *)
(***************************************************************************)
MaxFiles == 3      \* files a command may leave on the flash
MaxCrashes == 1    \* power losses during one replay or 'trans' command
MaxLen == 2        \* bytes a command may leave in one file
MaxStream == 6     \* bytes handed to one CJsonReadStream
MaxPiece == 3      \* bytes of one add() call
MaxOffset == 3     \* bytes the chunked 'ota' commands of one session carry
MaxBuf == 3        \* bytes of a buffer made by 'create'

(***************************************************************************)
(* Names and contents.                                                     *)
(***************************************************************************)
Marker == <<"$">>
EmptyFs == [n \in {} |-> <<>>]
NoName == <<>>

\* names the transaction model writes: ordinary files, their staged-rename
\* ($) and staged-delete (!) files, the marker, names that keep a reserved
\* suffix after one was stripped, and files of the directory d
TxNames ==
    { <<"$">>, <<"!">>,
      <<"a">>, <<"a","$">>, <<"a","!">>, <<"a","$","$">>,
      <<"d","/","b","c">>, <<"d","/","b","c","$">>, <<"d","/","e">> }
TxTexts == { <<>>, <<1>> }
TxDirs == { <<"d">> }

LastChar(s) == s[Len(s)]
ChopLast(s) == SubSeq(s, 1, Len(s) - 1)
Files(f) == DOMAIN f
Exists(f, n) == n \in DOMAIN f

(***************************************************************************)
(* Filesystem primitives (newlib/VFS over SPIFFS).                         *)
(***************************************************************************)
\* a remove that deletes nothing
RemoveNothing(f, n) == f

\* std::remove: deletes the entry; fails, changing nothing, when absent
Remove(f, n) == [m \in DOMAIN f \ {n} |-> f[m]]

\* std::rename: SPIFFS refuses a missing source and an existing target
Rename(f, old, new) ==
    IF old \in DOMAIN f /\ new \notin DOMAIN f
    THEN [m \in (DOMAIN f \ {old}) \cup {new} |->
              IF m = new THEN f[old] ELSE f[m]]
    ELSE f

\* fopen(name, "w") + fwrite + fclose: the file holds exactly data
Create(f, n, data) ==
    [m \in DOMAIN f \cup {n} |-> IF m = n THEN data ELSE f[m]]

\* fopen(name, "a") + fwrite + fclose: data goes after the old content
AppendTo(f, n, data) ==
    [m \in DOMAIN f \cup {n} |->
        IF m = n THEN (IF n \in DOMAIN f THEN f[n] ELSE <<>>) \o data
        ELSE f[m]]

\* readdir over opendir("/spiffs/" + dir): the entries below dir, their
\* names relative to it
DirEntries(f, dir) ==
    { SubSeq(m, Len(dir) + 2, Len(m)) :
        m \in { k \in DOMAIN f : /\ Len(k) > Len(dir) + 1
                                 /\ SubSeq(k, 1, Len(dir)) = dir
                                 /\ k[Len(dir) + 1] = "/" } }

(***************************************************************************)
(* Write-event notifications.                                              *)
(***************************************************************************)
Handlers == { "h1", "h2" }
FsCall == <<"fs", FALSE>>

RECURSIVE CallAll(_, _)
CallAll(q, lock) ==
    IF q = <<>> THEN <<>>
    ELSE <<<<Head(q), lock>>>> \o CallAll(Tail(q), lock)

\* a writeEvent that stops after the first handler
WriteEventFirstOnly(t, q, lock) ==
    IF q = <<>> THEN t ELSE Append(t, <<Head(q), lock>>)

\* writeEvent(lock): every handler of mWriteQueue, in list order
WriteEvent(t, q, lock) == t \o CallAll(q, lock)

\* a mutating filesystem call of the running command (runs of them are
\* recorded once)
Mut(t) == IF t # <<>> /\ t[Len(t)] = FsCall THEN t ELSE Append(t, FsCall)

Delivered(ll, q, lock) ==
    [h \in DOMAIN ll |->
        IF \E i \in 1..Len(q) : q[i] = h THEN lock ELSE ll[h]]

NoAnswer == [cmd |-> "none"]

(***************************************************************************)
(* endTransaction: the tests on a directory entry.                         *)
(***************************************************************************)
\* variants of the tests and of the stem: a purge that overlooks '!', the
\* two passes with their suffixes exchanged, a stem that strips nothing
IsOrphanDollarOnly(fname) == LastChar(fname) = "$"
IsStagedDeleteDollar(fname) == Len(fname) > 1 /\ LastChar(fname) = "$"
IsStagedRenameBang(fname) == Len(fname) > 1 /\ LastChar(fname) = "!"
StemWhole(fname) == fname

\* no marker: fname[fname.length() - 1] == '$' or '!'
IsOrphan(fname) == LastChar(fname) = "$" \/ LastChar(fname) = "!"

\* a rename pass that takes no entry for a staged-rename file
IsStagedRenameNever(fname) == FALSE

\* marker present, delete pass
IsStagedDelete(fname) == Len(fname) > 1 /\ LastChar(fname) = "!"

\* marker present, rename pass
IsStagedRename(fname) == Len(fname) > 1 /\ LastChar(fname) = "$"

\* fname2 = fname.substr(0, fname.length() - 1)
Stem(fname) == ChopLast(fname)

hist == <<snap, snapSet, crashes, crashMk, cleanSince, second, opened,
          cmd0, cmdKind, cmdIn, cmdClear, crashPhase>>
evVars == <<mWriteQueue, trace, lastLock, answer>>
cdVars == <<clearQ, transFiles, cdDir, cdRes>>

NoInput == [none |-> TRUE]

\* a pointer that is nullptr
Null == [null |-> TRUE]

\* the bytes CJsonReadStream tells apart: '{', '}' and the string
\* terminator; Junk is what memory holds that was allocated and not yet
\* written, a value no byte has
LBrace == 123
RBrace == 125
Nul == 0
Junk == 256

\* mBuf = nullptr
NullBuf == [null |-> TRUE, bytes |-> <<>>]

\* no CJsonReadStream object yet. The fields stream, got and joined are
\* history: the bytes of all add() calls in order, the strings get()
\* returned, and how many strings were put together from several calls.
NoStream ==
    [made |-> FALSE, mSize |-> 0, mFree |-> FALSE, mBuf |-> NullBuf,
     mBufIndex |-> 0, mCount |-> 0, mStrings |-> <<>>, stream |-> <<>>,
     got |-> <<>>, joined |-> 0]

\* COTASystem before any command: update_handle = 0, offset = 0. The
\* fields open and written are the session of the esp_ota library behind
\* the handle (begun and neither ended nor aborted; the bytes written to
\* it).
NoSession ==
    [update_handle |-> 0, offset |-> 0, open |-> FALSE, written |-> 0]

\* the CBufferSystem object before any command: mBuffer = nullptr,
\* mPart = BUF_PART_SIZE, mParts = nullptr, mRead = false. The fields made,
\* accepted and last are history: which command made the buffer, the indices
\* of the packets addData has copied into it since, and the payload of the
\* latest of them for each index. The fields file and given are history
\* too: the bytes 'rd' read from the file, and the indices getData has
\* handed out since the buffer was made.
BUF_PART_SIZE == 200
NoBuffer ==
    [mBuffer |-> Null, mSize |-> 0, mPart |-> BUF_PART_SIZE, mParts |-> Null,
     mLastPart |-> 0, mRead |-> FALSE, made |-> "none", accepted |-> {},
     last |-> <<>>, file |-> <<>>, given |-> {}]

ChainActive == snapSet \/ cmdKind \in {"end", "cancel"}

(***************************************************************************)
(* State after power-up, before init(): an empty (formatted) flash.        *)
(***************************************************************************)
Init ==
    /\ js = NoStream
    /\ ota = NoSession
    /\ buf = NoBuffer
    /\ fs = EmptyFs
    /\ pc = "off"
    /\ mounted = FALSE
    /\ caller = "none"
    /\ retTo = "off"
    /\ todo = {}
    /\ cur = NoName
    /\ res = FALSE
    /\ clearQ = <<>>
    /\ transFiles = {}
    /\ cdDir = NoName
    /\ cdRes = 0
    /\ mWriteQueue = <<>>
    /\ trace = <<>>
    /\ lastLock = [h \in Handlers |-> FALSE]
    /\ answer = NoAnswer
    /\ snap = EmptyFs
    /\ snapSet = FALSE
    /\ crashes = 0
    /\ crashMk = FALSE
    /\ cleanSince = FALSE
    /\ second = FALSE
    /\ opened = FALSE
    /\ depth = 0
    /\ cmd0 = EmptyFs
    /\ cmdKind = "none"
    /\ cmdIn = NoInput
    /\ cmdClear = <<>>
    /\ crashPhase = "none"

(***************************************************************************)
(* endTransaction(), one filesystem call per step.                         *)
(***************************************************************************)
\* dp = opendir("/spiffs"): nullptr when /spiffs is not mounted, and then
\* res = true; otherwise fopen("/spiffs/$", "r") picks the branch
ET_Open ==
    /\ pc = "et_open"
    /\ IF mounted
       THEN /\ res' = FALSE
            /\ opened' = TRUE
            /\ todo' = Files(fs)
            /\ pc' = IF Exists(fs, Marker) THEN "et_del" ELSE "et_purge"
       ELSE /\ res' = TRUE
            /\ opened' = FALSE
            /\ todo' = {}
            /\ pc' = "et_ret"
    /\ snap' = IF snapSet THEN snap ELSE fs
    /\ snapSet' = TRUE
    /\ second' = cleanSince
    /\ cleanSince' = FALSE
    /\ UNCHANGED <<js, ota, buf, fs, mounted, caller, retTo, cur, depth, crashes, crashMk,
                   cmd0, cmdKind, cmdIn, cmdClear, crashPhase>>
    /\ UNCHANGED <<evVars, cdVars>>

\* no marker: one readdir entry; staged files are deleted
ET_PurgeEntry ==
    /\ pc = "et_purge"
    /\ \E fname \in todo :
          /\ todo' = todo \ {fname}
          /\ IF IsOrphan(fname)
             THEN /\ res' = TRUE
                  /\ fs' = Remove(fs, fname)
                  /\ trace' = Mut(trace)
             ELSE UNCHANGED <<res, fs, trace>>
    /\ UNCHANGED <<js, ota, buf, pc, mounted, caller, retTo, cur, depth, mWriteQueue, lastLock, answer>>
    /\ UNCHANGED <<hist, cdVars>>

\* no marker: readdir returned NULL; closedir; return res
ET_PurgeDone ==
    /\ pc = "et_purge"
    /\ todo = {}
    /\ pc' = "et_ret"
    /\ res' = IF depth > 0 THEN TRUE ELSE res
    /\ depth' = 0
    /\ UNCHANGED <<js, ota, buf, fs, mounted, caller, retTo, todo, cur>>
    /\ UNCHANGED <<hist, evVars, cdVars>>

\* marker present, first loop: one readdir entry; for name! the original
\* is removed first
ET_DelEntry ==
    /\ pc = "et_del"
    /\ \E fname \in todo :
          IF IsStagedDelete(fname)
          THEN /\ fs' = Remove(fs, Stem(fname))
               /\ todo' = (todo \ {fname}) \cap Files(fs')
               /\ cur' = fname
               /\ pc' = "et_del2"
               /\ trace' = Mut(trace)
          ELSE /\ todo' = todo \ {fname}
               /\ UNCHANGED <<fs, cur, pc, trace>>
    /\ UNCHANGED <<js, ota, buf, mounted, caller, retTo, res, depth, mWriteQueue, lastLock, answer>>
    /\ UNCHANGED <<hist, cdVars>>

\* ... then the staged-delete file itself
ET_DelStaged ==
    /\ pc = "et_del2"
    /\ fs' = Remove(fs, cur)
    /\ todo' = todo \cap Files(fs')
    /\ cur' = NoName
    /\ pc' = "et_del"
    /\ trace' = Mut(trace)
    /\ UNCHANGED <<js, ota, buf, mounted, caller, retTo, res, depth, mWriteQueue, lastLock, answer>>
    /\ UNCHANGED <<hist, cdVars>>

\* closedir; dp = opendir("/spiffs") for the second loop
ET_DelDone ==
    /\ pc = "et_del"
    /\ todo = {}
    /\ todo' = Files(fs)
    /\ pc' = "et_ren"
    /\ UNCHANGED <<js, ota, buf, fs, mounted, caller, retTo, cur, res, depth>>
    /\ UNCHANGED <<hist, evVars, cdVars>>

\* marker present, second loop: one readdir entry; for name$ the original
\* is removed first
ET_RenEntry ==
    /\ pc = "et_ren"
    /\ \E fname \in todo :
          IF IsStagedRename(fname)
          THEN /\ fs' = Remove(fs, Stem(fname))
               /\ todo' = (todo \ {fname}) \cap Files(fs')
               /\ cur' = fname
               /\ pc' = "et_ren2"
               /\ trace' = Mut(trace)
          ELSE /\ todo' = todo \ {fname}
               /\ UNCHANGED <<fs, cur, pc, trace>>
    /\ UNCHANGED <<js, ota, buf, mounted, caller, retTo, res, depth, mWriteQueue, lastLock, answer>>
    /\ UNCHANGED <<hist, cdVars>>

\* ... then name$ is renamed to name.  Whether the open directory stream
\* later returns the entry under its new name is unspecified (readdir
\* after a change of the directory): both outcomes are possible.
ET_RenMove ==
    /\ pc = "et_ren2"
    /\ fs' = Rename(fs, cur, Stem(cur))
    /\ \E again \in BOOLEAN :
          todo' = IF again /\ Exists(fs', Stem(cur))
                  THEN todo \cup {Stem(cur)} ELSE todo
    /\ cur' = NoName
    /\ pc' = "et_ren"
    /\ trace' = Mut(trace)
    /\ UNCHANGED <<js, ota, buf, mounted, caller, retTo, res, depth, mWriteQueue, lastLock, answer>>
    /\ UNCHANGED <<hist, cdVars>>

\* closedir after the second loop
ET_RenDone ==
    /\ pc = "et_ren"
    /\ todo = {}
    /\ pc' = "et_fin"
    /\ UNCHANGED <<js, ota, buf, fs, mounted, caller, retTo, todo, cur, res, depth>>
    /\ UNCHANGED <<hist, evVars, cdVars>>

\* if (res) endTransaction(); else { remove("/spiffs/$"); res = true; }
ET_Finish ==
    /\ pc = "et_fin"
    /\ IF res
       THEN /\ pc' = "et_open"
            /\ depth' = depth + 1
            /\ UNCHANGED <<fs, res, trace>>
       ELSE /\ fs' = Remove(fs, Marker)
            /\ res' = TRUE
            /\ pc' = "et_ret"
            /\ depth' = 0
            /\ trace' = Mut(trace)
    /\ UNCHANGED <<js, ota, buf, mounted, caller, retTo, todo, cur, mWriteQueue, lastLock, answer>>
    /\ UNCHANGED <<hist, cdVars>>

(***************************************************************************)
(* init(), power loss, and the commands of the transaction protocol.       *)
(***************************************************************************)
ResetHist ==
    /\ snap' = EmptyFs
    /\ snapSet' = FALSE
    /\ crashes' = 0
    /\ crashMk' = FALSE
    /\ second' = FALSE
    /\ opened' = FALSE
    /\ cmd0' = EmptyFs
    /\ cmdKind' = "none"
    /\ cmdIn' = NoInput
    /\ cmdClear' = <<>>
    /\ crashPhase' = "none"

(***************************************************************************)
(* init(check).  The answer variable holds what the call did: the check    *)
(* flag it was given, whether the mount succeeded, whether endTransaction  *)
(* ran and what it returned, the maintenance calls made with their         *)
(* results, and the value returned.                                        *)
(***************************************************************************)
InitFrame ==
    /\ UNCHANGED <<js, ota, buf, mounted, caller, retTo, todo, cur, res, depth, mWriteQueue,
                   trace, lastLock>>
    /\ UNCHANGED <<hist, cdVars>>

\* a check that runs only when it was asked for
NeedsCheckOnlyIfAsked(check, etRes) == check

\* check |= endTransaction()
NeedsCheck(check, etRes) == check \/ etRes

\* esp_vfs_spiffs_register failed: return false
InitMountFail(checks) ==
    /\ pc = "off"
    /\ \E check \in checks :
          answer' = [cmd |-> "init", req |-> check, mountOk |-> FALSE,
                     ran |-> FALSE, etRes |-> FALSE, calls |-> <<>>,
                     done |-> TRUE, ok |-> FALSE]
    /\ UNCHANGED <<fs, pc>>
    /\ InitFrame

\* esp_vfs_spiffs_register succeeded: endTransaction() is called
InitMount(checks) ==
    /\ pc = "off"
    /\ pc' = "et_open"
    /\ mounted' = TRUE
    /\ UNCHANGED <<js, ota, buf>>
    /\ caller' = "init"
    /\ trace' = <<>>
    /\ \E check \in checks :
          answer' = [cmd |-> "init", req |-> check, mountOk |-> TRUE,
                     ran |-> FALSE, etRes |-> FALSE, calls |-> <<>>,
                     done |-> FALSE, ok |-> FALSE]
    /\ UNCHANGED <<fs, retTo, todo, cur, res, depth, mWriteQueue, lastLock>>
    /\ UNCHANGED <<hist, cdVars>>

Boot == InitMount({FALSE})

\* init() after endTransaction returned: if (check) ...
InitAfterET ==
    /\ pc = "et_ret"
    /\ caller = "init"
    /\ pc' = IF NeedsCheck(answer.req, res) THEN "init_check" ELSE "init_info"
    /\ answer' = [answer EXCEPT !.ran = opened, !.etRes = res]
    /\ caller' = "none"
    /\ res' = FALSE
    /\ cleanSince' = TRUE
    /\ ResetHist
    /\ UNCHANGED <<js, ota, buf, fs, mounted, retTo, todo, cur, depth>>
    /\ UNCHANGED <<mWriteQueue, trace, lastLock>>
    /\ UNCHANGED cdVars

\* esp_spiffs_check: on failure return false
InitCheck(oks) ==
    /\ pc = "init_check"
    /\ \E ok \in oks :
          /\ pc' = IF ok THEN "init_gc" ELSE "idle"
          /\ answer' = [answer EXCEPT
                           !.calls = Append(@, <<"check", ok>>),
                           !.done = ~ok]
    /\ UNCHANGED fs
    /\ InitFrame

\* esp_spiffs_gc
InitGc ==
    /\ pc = "init_gc"
    /\ pc' = "init_info"
    /\ answer' = [answer EXCEPT !.calls = Append(@, <<"gc", TRUE>>)]
    /\ UNCHANGED fs
    /\ InitFrame

\* esp_spiffs_info; on failure esp_spiffs_format, whose result is returned
InitInfo(infoOks, formatOks) ==
    /\ pc = "init_info"
    /\ pc' = "idle"
    /\ \E info \in infoOks, format \in formatOks :
          IF info
          THEN /\ answer' = [answer EXCEPT !.done = TRUE, !.ok = TRUE]
               /\ UNCHANGED fs
          ELSE /\ answer' = [answer EXCEPT
                                !.calls = Append(@, <<"format", format>>),
                                !.done = TRUE, !.ok = format]
               /\ fs' = IF format THEN EmptyFs ELSE fs
    /\ InitFrame

InitCheckOk == InitCheck({TRUE})
InitInfoOk == InitInfo({TRUE}, {TRUE})

\* power loss: the flash keeps what the completed calls wrote, the RAM
\* state of the firmware is gone
Crash ==
    /\ pc # "off"
    /\ ChainActive => crashes < MaxCrashes
    /\ pc' = "off"
    /\ js' = NoStream
    /\ ota' = NoSession
    /\ buf' = NoBuffer
    /\ mounted' = FALSE
    /\ caller' = "none"
    /\ retTo' = "off"
    /\ todo' = {}
    /\ cur' = NoName
    /\ res' = FALSE
    /\ depth' = 0
    /\ clearQ' = <<>>
    /\ transFiles' = {}
    /\ cdDir' = NoName
    /\ cdRes' = 0
    /\ mWriteQueue' = <<>>
    /\ trace' = <<>>
    /\ lastLock' = [h \in Handlers |-> FALSE]
    /\ answer' = NoAnswer
    /\ second' = FALSE
    /\ opened' = FALSE
    /\ crashes' = IF ChainActive THEN crashes + 1 ELSE crashes
    /\ crashMk' = (crashMk \/ (ChainActive /\ Exists(fs, Marker)))
    /\ crashPhase' = IF crashPhase # "none" \/ cmdKind # "end" THEN crashPhase
                     ELSE IF caller = "end" THEN "after" ELSE "before"
    /\ cmd0' = IF ChainActive THEN cmd0 ELSE EmptyFs
    /\ cmdKind' = IF ChainActive THEN cmdKind ELSE "none"
    /\ cmdIn' = NoInput
    /\ UNCHANGED <<fs, snap, snapSet, cleanSince, cmdClear>>

(***************************************************************************)
(* The commands that run in one piece.                                     *)
(***************************************************************************)
Locked(q) == WriteEvent(<<>>, q, TRUE)
Unlock(t, q) == WriteEvent(t, q, FALSE)

\* the last lock value each handler received
LastLockOf(ll, t) ==
    [h \in DOMAIN ll |->
        LET idx == { i \in 1..Len(t) : t[i][1] = h }
        IN IF idx = {} THEN ll[h]
           ELSE t[CHOOSE i \in idx : \A k \in idx : k <= i][2]]

\* the command returns: its effect, its answer and what it called
DoneOta(kind, in, newFs, ans, tr, newBuf, newOta) ==
    /\ pc = "idle"
    /\ UNCHANGED js
    /\ ota' = newOta
    /\ buf' = newBuf
    /\ \E g \in {newFs}, t \in {tr} :
          /\ Cardinality(Files(g)) <= MaxFiles
          /\ \A n \in Files(g) : Len(g[n]) <= MaxLen
          /\ fs' = g
          /\ trace' = t
          /\ lastLock' = LastLockOf(lastLock, t)
          /\ cleanSince' = (cleanSince /\ g = fs)
    /\ answer' = ans
    /\ cmd0' = fs
    /\ cmdKind' = kind
    /\ cmdIn' = in
    /\ pc' = "cmd_ret"
    /\ UNCHANGED <<mounted, caller, retTo, todo, cur, res, depth,
                   mWriteQueue>>
    /\ UNCHANGED <<snap, snapSet, crashes, crashMk, second, opened, cmdClear,
                   crashPhase>>
    /\ UNCHANGED cdVars

\* a command that leaves the firmware update alone
DoneBuf(kind, in, newFs, ans, tr, newBuf) ==
    DoneOta(kind, in, newFs, ans, tr, newBuf, ota)

\* a command of the filesystem: the buffer is not touched
Done(kind, in, newFs, ans, tr) == DoneBuf(kind, in, newFs, ans, tr, buf)

\* command() has returned: the caller takes the answer
CmdReturn ==
    /\ pc = "cmd_ret"
    /\ pc' = "idle"
    /\ answer' = NoAnswer
    /\ trace' = <<>>
    /\ cmd0' = EmptyFs
    /\ cmdKind' = "none"
    /\ cmdIn' = NoInput
    /\ UNCHANGED <<js, ota, buf, fs, mounted, caller, retTo, todo, cur, res, depth,
                   mWriteQueue, lastLock>>
    /\ UNCHANGED <<snap, snapSet, crashes, crashMk, cleanSince, second,
                   opened, cmdClear, crashPhase>>
    /\ UNCHANGED cdVars

\* command 'ct': create a text file (fopen "w", fwrite, fclose)
CtFs(f, name, text, io) ==
    IF io = "openFail" THEN f
    ELSE IF io = "writeFail" THEN Create(f, name, <<>>)
    ELSE Create(f, name, text)

CtAnswer(name, text, io) ==
    IF io = "openFail" THEN [cmd |-> "ct", error |-> "open"]
    ELSE IF io = "writeFail" THEN [cmd |-> "ct", error |-> "write"]
    ELSE [cmd |-> "ct", error |-> "none", tc |-> name, size |-> Len(text)]

CtTrace(q) == Unlock(Mut(Locked(q)), q)

CmdCt(names, texts, ios) ==
    /\ pc = "idle"
    /\ \E name \in names, text \in texts, io \in ios :
        Done("ct", [name |-> name, text |-> text, io |-> io],
             CtFs(fs, name, text, io), CtAnswer(name, text, io),
             CtTrace(mWriteQueue))

\* command 'at': append text (fopen "a", fwrite, fclose)
AtFs(f, name, text, io) ==
    IF io = "openFail" THEN f
    ELSE IF io = "writeFail" THEN AppendTo(f, name, <<>>)
    ELSE AppendTo(f, name, text)

AtAnswer(f, name, text, io) ==
    IF io = "openFail" THEN [cmd |-> "at", error |-> "open"]
    ELSE IF io = "writeFail" THEN [cmd |-> "at", error |-> "write"]
    ELSE [cmd |-> "at", error |-> "none", ta |-> name,
          size |-> Len(AppendTo(f, name, text)[name])]

CmdAt(names, texts, ios) ==
    /\ pc = "idle"
    /\ \E name \in names, text \in texts, io \in ios :
        Done("at", [name |-> name, text |-> text, io |-> io],
             AtFs(fs, name, text, io), AtAnswer(fs, name, text, io),
             Unlock(Mut(Locked(mWriteQueue)), mWriteQueue))

\* writeBuffer(fileName, data, size): append bytes; the answer is the
\* returned bool
WriteBuffer(names, texts, ios) ==
    /\ pc = "idle"
    /\ \E name \in names, text \in texts, io \in ios :
        Done("writeBuffer", [name |-> name, text |-> text, io |-> io],
             AtFs(fs, name, text, io),
             [cmd |-> "writeBuffer", ok |-> (io = "ok")],
             Unlock(Mut(Locked(mWriteQueue)), mWriteQueue))

\* command 'rm'
RmTrace(f, name, q) ==
    IF Exists(f, name) THEN Unlock(Mut(Locked(q)), q) ELSE Unlock(Locked(q), q)

\* an 'rm' that leaves the file in place
RmFsKeepsFile(f, name) == f

\* if (exists(str)) remove(str)
RmFs(f, name) == IF Exists(f, name) THEN Remove(f, name) ELSE f

\* else answer["spiffs"]["warning"]; answer["spiffs"]["fd"] = fname
RmAnswer(f, name) ==
    [cmd |-> "rm", error |-> "none", warning |-> ~Exists(f, name),
     fd |-> name]

CmdRm(names) ==
    /\ pc = "idle"
    /\ \E name \in names :
        Done("rm", [name |-> name], RmFs(fs, name), RmAnswer(fs, name),
             RmTrace(fs, name, mWriteQueue))

\* a rename that does not remove an existing target first
RenameFsNoRemove(f, old, new, io) ==
    IF ~Exists(f, old) \/ io = "renameFail" THEN f ELSE Rename(f, old, new)

\* command 'old'/'new': an existing target is removed first, then
\* std::rename; its result decides between fold/fnew and the error
RenameFs(f, old, new, io) ==
    IF ~Exists(f, old) THEN f
    ELSE LET g == IF Exists(f, new) THEN Remove(f, new) ELSE f
         IN IF io = "renameFail" THEN g ELSE Rename(g, old, new)

RenameFailed(f, old, new, io) ==
    LET g == IF Exists(f, new) THEN Remove(f, new) ELSE f
    IN io = "renameFail" \/ ~Exists(g, old) \/ Exists(g, new)

\* an answer that knows no warning: a missing source is always an error
RenameAnswerNoWarning(f, old, new, io) ==
    IF Exists(f, old) /\ ~RenameFailed(f, old, new, io)
    THEN [cmd |-> "rename", error |-> "none", warning |-> FALSE,
          fold |-> old, fnew |-> new]
    ELSE [cmd |-> "rename", error |-> "rename", warning |-> FALSE]

RenameAnswer(f, old, new, io) ==
    IF Exists(f, old)
    THEN IF RenameFailed(f, old, new, io)
         THEN [cmd |-> "rename", error |-> "rename", warning |-> FALSE]
         ELSE [cmd |-> "rename", error |-> "none", warning |-> FALSE,
               fold |-> old, fnew |-> new]
    ELSE IF Exists(f, new)
         THEN [cmd |-> "rename", error |-> "none", warning |-> TRUE,
               fnew |-> new]
         ELSE [cmd |-> "rename", error |-> "rename", warning |-> FALSE]

RenameTrace(f, old, q) ==
    IF Exists(f, old) THEN Unlock(Mut(Locked(q)), q) ELSE Unlock(Locked(q), q)

CmdRename(names, ios) ==
    /\ pc = "idle"
    /\ \E old \in names, new \in names, io \in ios :
        Done("rename", [old |-> old, new |-> new, io |-> io],
             RenameFs(fs, old, new, io), RenameAnswer(fs, old, new, io),
             RenameTrace(fs, old, mWriteQueue))

(***************************************************************************)
(* Command 'wr': hex decoding, offset handling, append.                     *)
(***************************************************************************)
HexDigits == { "0", "1", "f" }
HexValue(c) == IF c = "0" THEN 0 ELSE IF c = "1" THEN 1 ELSE 15

BadByte == [ok |-> FALSE, val |-> 0]

\* static_cast<uint8_t>(std::stoi(byteStr, nullptr, 16)) on the one or two
\* characters of hexString.substr(i, 2): leading white space is skipped, a
\* sign is accepted, the digits end at the first other character, and
\* std::invalid_argument is thrown only when there is no digit at all
Stoi16(byteStr) ==
    LET c1 == byteStr[1]
        two == Len(byteStr) = 2 /\ byteStr[2] \in HexDigits
    IN IF c1 \in HexDigits
       THEN [ok |-> TRUE,
             val |-> IF two THEN 16 * HexValue(c1) + HexValue(byteStr[2])
                     ELSE HexValue(c1)]
       ELSE IF c1 = " " /\ two
       THEN [ok |-> TRUE, val |-> HexValue(byteStr[2])]
       ELSE IF c1 = "-" /\ two
       THEN [ok |-> TRUE, val |-> (256 - HexValue(byteStr[2])) % 256]
       ELSE BadByte

\* the decoding loop over std::vector<uint8_t> data(hexString.length() / 2):
\* "invalid" when stoi throws, "overrun" when data[i >> 1] is written past
\* the end of the vector (the last character of an odd-length string)
RECURSIVE DecodeFrom(_, _, _)
DecodeFrom(hex, i, data) ==
    IF i > Len(hex) THEN [status |-> "ok", data |-> data]
    ELSE LET last == IF i + 1 <= Len(hex) THEN i + 1 ELSE Len(hex)
             byte == Stoi16(SubSeq(hex, i, last))
         IN IF ~byte.ok THEN [status |-> "invalid", data |-> data]
            ELSE IF Len(data) >= Len(hex) \div 2
            THEN [status |-> "overrun", data |-> data]
            ELSE DecodeFrom(hex, i + 2, Append(data, byte.val))

DecodeHex(hex) == DecodeFrom(hex, 1, <<>>)

\* cmd["spiffs"]["offset"].get<int>() of an unsigned JSON number, written
\* as hi * 2^32 + b31 * 2^31 + lo with lo < 2^31: the low 32 bits, signed;
\* 0 when the field is absent
OffsetAsInt(o) ==
    IF ~o.given THEN 0
    ELSE IF o.b31 = 1 THEN o.lo - 2147483647 - 1
    ELSE o.lo

\* truncate(path, length): EINVAL for a negative length
Truncate(f, n, length) ==
    IF length < 0 THEN f
    ELSE [f EXCEPT ![n] = SubSeq(f[n], 1, length)]

\* fsize = ftell(f) after fopen(name, "a")
WrSize(f, name) == Len(AppendTo(f, name, <<>>)[name])

WrTruncates(f, name, offset) == offset < WrSize(f, name)

\* offset != fsize after the truncation step
WrWrongOffset(f, name, offset) ==
    ~WrTruncates(f, name, offset) /\ offset # WrSize(f, name)

WrFs(f, name, data, offset, io) ==
    IF io = "openFail" THEN f
    ELSE LET g == AppendTo(f, name, <<>>)
             h == IF WrTruncates(f, name, offset)
                  THEN Truncate(g, name, offset) ELSE g
         IN IF WrWrongOffset(f, name, offset) \/ io = "writeFail" THEN h
            ELSE AppendTo(h, name, data)

WrAnswer(f, name, data, offset, io) ==
    IF io = "openFail"
    THEN [cmd |-> "wr", error |-> "open", rewrite |-> FALSE]
    ELSE IF WrWrongOffset(f, name, offset)
    THEN [cmd |-> "wr", error |-> "offset", rewrite |-> FALSE]
    ELSE IF io = "writeFail"
    THEN [cmd |-> "wr", error |-> "write",
          rewrite |-> WrTruncates(f, name, offset)]
    ELSE [cmd |-> "wr", error |-> "none",
          rewrite |-> WrTruncates(f, name, offset),
          fw |-> name, offset |-> offset, size |-> Len(data)]

NoOffset == [given |-> FALSE, hi |-> 0, b31 |-> 0, lo |-> 0]

\* no 'data' field
WrNoData(names) ==
    /\ pc = "idle"
    /\ \E name \in names :
        Done("wr", [name |-> name, hasData |-> FALSE, hex |-> <<>>,
                    offset |-> NoOffset, io |-> "ok"],
             fs, [cmd |-> "wr", error |-> "nodata", rewrite |-> FALSE], <<>>)

\* std::invalid_argument: return before writeEvent(true)
WrInvalid(names, datas) ==
    /\ pc = "idle"
    /\ \E name \in names, hex \in datas :
        /\ DecodeHex(hex).status = "invalid"
        /\ Done("wr", [name |-> name, hasData |-> TRUE, hex |-> hex,
                       offset |-> NoOffset, io |-> "ok"],
                fs, [cmd |-> "wr", error |-> "hex", rewrite |-> FALSE], <<>>)

\* the write past the end of data: the heap is damaged and the firmware
\* may stop here
WrOverrunReset(datas) ==
    \E hex \in datas :
        /\ pc = "idle"
        /\ DecodeHex(hex).status = "overrun"
        /\ Crash

WrWrite(names, datas, offsets, ios) ==
    /\ pc = "idle"
    /\ \E name \in names, hex \in datas, o \in offsets, io \in ios :
        \E dec \in {DecodeHex(hex)}, offset \in {OffsetAsInt(o)} :
           /\ dec.status # "invalid"
           /\ Done("wr", [name |-> name, hasData |-> TRUE, hex |-> hex,
                          offset |-> o, io |-> io],
                   WrFs(fs, name, dec.data, offset, io),
                   WrAnswer(fs, name, dec.data, offset, io),
                   Unlock(Mut(Locked(mWriteQueue)), mWriteQueue))

CmdWr(names, datas, offsets, ios) ==
    \/ WrNoData(names)
    \/ WrInvalid(names, datas)
    \/ WrOverrunReset(datas)
    \/ WrWrite(names, datas, offsets, ios)

(***************************************************************************)
(* Command 'rd': read bytes, answer them in hex.                           *)
(***************************************************************************)
\* CONFIG_DATAFORMAT_DEFAULT_DATA_SIZE / 2, here more than any file holds
DefaultRdSize == MaxLen + 1

\* sprintf(tmp, "%02x", data[i])
HexChar(n) ==
    <<"0","1","2","3","4","5","6","7","8","9","a","b","c","d","e","f">>[n + 1]

RECURSIVE ToHex(_)
ToHex(data) ==
    IF data = <<>> THEN <<>>
    ELSE <<HexChar(Head(data) \div 16), HexChar(Head(data) % 16)>>
         \o ToHex(Tail(data))

\* size = get<int>() of the 'size' field, or the default
RdSize(sz) == IF sz.given THEN OffsetAsInt(sz) ELSE DefaultRdSize

\* fseek(f, offset, SEEK_SET) on the freshly opened file: a negative
\* offset is refused and the position stays 0
RdPosition(offset) == IF offset < 0 THEN 0 ELSE offset

\* fread(data, 1, size, f) from that position
RdBytes(content, offset, size) ==
    LET from == RdPosition(offset) + 1
        upto == IF from - 1 + size < Len(content) THEN from - 1 + size
                ELSE Len(content)
    IN SubSeq(content, from, upto)

RdAnswer(f, name, o, sz, io) ==
    IF ~Exists(f, name) \/ io = "openFail"
    THEN [cmd |-> "rd", error |-> "open"]
    ELSE [cmd |-> "rd", error |-> "none", fr |-> name,
          offset |-> OffsetAsInt(o),
          data |-> ToHex(RdBytes(f[name], OffsetAsInt(o), RdSize(sz)))]

\* new uint8_t[size] with a negative size: std::bad_alloc, which command()
\* does not catch
RdBadAlloc(names, sizes) ==
    \E name \in names, sz \in sizes :
        /\ pc = "idle"
        /\ Exists(fs, name)
        /\ RdSize(sz) < 0
        /\ Crash

RdRead(names, offsets, sizes, ios) ==
    /\ pc = "idle"
    /\ \E name \in names, o \in offsets, sz \in sizes, io \in ios :
        /\ (Exists(fs, name) /\ io = "ok") => RdSize(sz) >= 0
        /\ Done("rd", [name |-> name, offset |-> o, size |-> sz, io |-> io],
                fs, RdAnswer(fs, name, o, sz, io), <<>>)

CmdRd(names, offsets, sizes, ios) ==
    \/ RdBadAlloc(names, sizes)
    \/ RdRead(names, offsets, sizes, ios)

(***************************************************************************)
(* Command 'ls': one page of a directory listing.                          *)
(***************************************************************************)
\* readdir over opendir("/spiffs") or opendir("/spiffs/" + dir)
LsNamesIn(f, dir) == IF dir = <<>> THEN Files(f) ELSE DirEntries(f, dir)

\* strchr(entry->d_name, '/')
HasSlash(n) == \E i \in 1..Len(n) : n[i] = "/"
SlashAt(n) == CHOOSE i \in 1..Len(n) : n[i] = "/" /\ \A k \in 1..(i - 1) : n[k] # "/"

\* the order in which readdir returns a set of entries: fixed while the
\* filesystem is unchanged
RECURSIVE Enumerate(_)
Enumerate(S) ==
    IF S = {} THEN <<>>
    ELSE LET n == CHOOSE m \in S : TRUE
         IN <<n>> \o Enumerate(S \ {n})

\* std::map<std::string, uint32_t> iterates in the order of operator<
CharOrder == <<"!", "$", "/", "a", "b", "c", "d", "e", "f", "g", "x", "y">>
CharRank(c) == CHOOSE i \in 1..Len(CharOrder) : CharOrder[i] = c

RECURSIVE StringLess(_, _)
StringLess(a, b) ==
    IF b = <<>> THEN FALSE
    ELSE IF a = <<>> THEN TRUE
    ELSE IF Head(a) = Head(b) THEN StringLess(Tail(a), Tail(b))
    ELSE CharRank(Head(a)) < CharRank(Head(b))

RECURSIVE InNameOrder(_)
InNameOrder(S) ==
    IF S = {} THEN <<>>
    ELSE LET n == CHOOSE m \in S : \A k \in S \ {m} : StringLess(m, k)
         IN <<n>> \o InNameOrder(S \ {n})

\* fl["name"], fl["size"] of a plain file
LsFile(f, dir, n) ==
    [name |-> n, dir |-> FALSE,
     size |-> Len(f[IF dir = <<>> THEN n ELSE dir \o <<"/">> \o n])]

\* fl["name"], fl["count"] of a subdirectory
LsDir(ents, d) ==
    [name |-> d, dir |-> TRUE,
     size |-> Cardinality({ n \in ents :
                  HasSlash(n) /\ SubSeq(n, 1, SlashAt(n) - 1) = d })]

\* the entries the two loops go through: the plain files as readdir
\* returns them, then the keys of dirs
LsEntries(f, dir) ==
    LET ents == LsNamesIn(f, dir)
        plain == { n \in ents : ~HasSlash(n) }
        dirs == { SubSeq(n, 1, SlashAt(n) - 1) : n \in ents \ plain }
    IN [i \in 1..Cardinality(plain) |-> LsFile(f, dir, Enumerate(plain)[i])]
       \o [i \in 1..Cardinality(dirs) |-> LsDir(ents, InNameOrder(dirs)[i])]

\* offset-- and count-- on an int; at INT_MIN the decrement overflows
\* (undefined): the value wraps to INT_MAX or is taken as still negative
IntMin == -2147483647 - 1
Decrement(x, ub) ==
    IF x = IntMin THEN (IF ub = "wrap" THEN 2147483647 ELSE IntMin)
    ELSE x - 1

\* offset--; if (offset < 0) { if (count != 0) { count--; push_back } }
RECURSIVE LsScan(_, _, _, _, _)
LsScan(entries, offset, count, ub, out) ==
    IF entries = <<>> THEN out
    ELSE IF Decrement(offset, ub) < 0 /\ count # 0
    THEN LsScan(Tail(entries), Decrement(offset, ub), Decrement(count, ub),
                ub, Append(out, Head(entries)))
    ELSE LsScan(Tail(entries), Decrement(offset, ub), count, ub, out)

\* count = -1 unless the field is given
LsCount(c) == IF c.given THEN OffsetAsInt(c) ELSE -1

LsAnswer(f, dir, o, c, io, ub) ==
    IF io = "openFail" THEN [cmd |-> "ls", error |-> "open", root |-> dir]
    ELSE [cmd |-> "ls", error |-> "none", root |-> dir,
          files |-> LsScan(LsEntries(f, dir), OffsetAsInt(o), LsCount(c),
                           ub, <<>>)]

CmdLs(dirs, offsets, counts, ios) ==
    /\ pc = "idle"
    /\ \E dir \in dirs, o \in offsets, c \in counts, io \in ios,
          ub \in {"wrap", "stay"} :
          Done("ls", [dir |-> dir, offset |-> o, count |-> c, io |-> io],
               fs, LsAnswer(fs, dir, o, c, io, ub),
               Unlock(Locked(mWriteQueue), mWriteQueue))

(***************************************************************************)
(* CBufferSystem: a buffer filled part by part through addData, or loaded  *)
(* from a file and handed out part by part through getData.                *)
(***************************************************************************)
\* free(): both arrays are released if mBuffer is set
Free(b) ==
    IF b.mBuffer.null THEN b
    ELSE [b EXCEPT !.mBuffer = Null, !.mParts = Null,
                   !.last = <<>>, !.file = <<>>, !.given = {}]

\* init(size): free(), then heap_caps_malloc(size), which returns nullptr
\* for size 0 or when the heap is short; the memory it returns holds any
\* bytes
BufInit(b, size, alloc, bytes) ==
    IF size = 0 \/ alloc # "ok" THEN Free(b)
    ELSE [Free(b) EXCEPT !.mBuffer = [null |-> FALSE, bytes |-> bytes],
                         !.mSize = size]

\* mPart = get<uint16_t>() of the field 'part', BUF_PART_SIZE without it
PartOf(p) == IF p.given THEN p.val % 65536 ELSE BUF_PART_SIZE

\* mLastPart = mSize / mPart; if (mSize % mPart == 0) mLastPart--;
\* (uint16_t), for mPart # 0
LastPartOf(size, part) ==
    IF size % part = 0 THEN (((size \div part) % 65536) + 65535) % 65536
    ELSE (size \div part) % 65536

\* a packet length that fits no part: the last part as long as the others
LastSizeAsPart(b) == b.mPart

\* sz = mSize - mLastPart * mPart
LastSize(b) == b.mSize - b.mLastPart * b.mPart

\* a flag array that starts with every flag set
NewPartsAllSet(lastPart, v) ==
    [null |-> FALSE, len |-> lastPart + 1, ones |-> 0..lastPart]

\* mParts = new uint8_t[mLastPart + 1]; memset(mParts, v, mLastPart + 1)
NewParts(lastPart, v) ==
    [null |-> FALSE, len |-> lastPart + 1,
     ones |-> IF v = 1 THEN 0..lastPart ELSE {}]

\* a 'create' that leaves mRead as it was
CreatedKeepsRead(b, p) ==
    [b EXCEPT !.mPart = PartOf(p),
              !.mLastPart = LastPartOf(b.mSize, PartOf(p)),
              !.mParts = [null |-> FALSE,
                          len |-> LastPartOf(b.mSize, PartOf(p)) + 1,
                          ones |-> {}],
              !.made = "create",
              !.accepted = {},
              !.last = <<>>,
              !.file = <<>>,
              !.given = {}]

\* command 'create' after init(x) succeeded
Created(b, p) ==
    [b EXCEPT !.mPart = PartOf(p),
              !.mLastPart = LastPartOf(b.mSize, PartOf(p)),
              !.mParts = NewParts(LastPartOf(b.mSize, PartOf(p)), 0),
              !.mRead = FALSE,
              !.made = "create",
              !.accepted = {},
              !.last = <<>>,
              !.file = <<>>,
              !.given = {}]

BufContents(size) == [1..size -> {0, 1}]

BufCreate(sizes, parts) ==
    /\ pc = "idle"
    /\ \E x \in sizes, p \in parts, alloc \in {"ok", "fail"} :
       \E bytes \in BufContents(x) :
       \E b \in {BufInit(buf, x, alloc, bytes)} :
          /\ b.mBuffer.null \/ PartOf(p) # 0
          /\ DoneBuf("create", [size |-> x, part |-> p, before |-> buf], fs,
                     [cmd |-> "create", cancel |-> FALSE, ok |-> ~b.mBuffer.null], <<>>,
                     IF b.mBuffer.null THEN b ELSE Created(b, p))

\* 'create' with a part of 0 (or 65536), once init(x) has succeeded:
\* mSize / mPart divides by zero, the processor raises
\* IntegerDivideByZero and the firmware restarts
BufCreateDivZero(sizes, parts) ==
    /\ pc = "idle"
    /\ \E x \in sizes, p \in parts :
          /\ x # 0
          /\ PartOf(p) = 0
          /\ Crash

\* std::to_string(i)
Digit(d) == <<"0", "1", "2", "3", "4", "5", "6", "7", "8", "9">>[d + 1]
RECURSIVE ToDecimal(_)
ToDecimal(i) ==
    IF i < 10 THEN <<Digit(i)>> ELSE Append(ToDecimal(i \div 10), Digit(i % 10))

\* for (i = 0; i <= mLastPart; i++) if (mParts[i] == 0) empty += to_string(i)
EmptyParts(b) ==
    LET zero == SelectSeq([k \in 1..(b.mLastPart + 1) |-> k - 1],
                          LAMBDA i : i \notin b.mParts.ones)
    IN [k \in 1..Len(zero) |-> ToDecimal(zero[k])]

CheckAnswer(b) ==
    IF b.mParts.null THEN [cmd |-> "check", cancel |-> FALSE, error |-> "notCreated"]
    ELSE [cmd |-> "check", cancel |-> FALSE, error |-> "none", empty |-> EmptyParts(b),
          size |-> b.mSize, part |-> b.mPart]

BufCheck ==
    /\ pc = "idle"
    /\ DoneBuf("check", [before |-> buf], fs, CheckAnswer(buf), <<>>, buf)

\* command 'wr': writeBuffer("/spiffs/" + fname, mBuffer, mSize), then
\* free() if the command holds 'free'
BufWr(names, frees, ios) ==
    /\ pc = "idle"
    /\ \E name \in names, fr \in frees, io \in ios :
          IF buf.mBuffer.null
          THEN DoneBuf("bufwr", [name |-> name, free |-> fr, before |-> buf], fs,
                       [cmd |-> "bufwr", cancel |-> FALSE, error |-> "notCreated"], <<>>, buf)
          ELSE DoneBuf("bufwr", [name |-> name, free |-> fr, before |-> buf],
                       AtFs(fs, name, buf.mBuffer.bytes, io),
                       [cmd |-> "bufwr", cancel |-> FALSE,
                        error |-> IF io = "ok" THEN "none" ELSE "write"],
                       Unlock(Mut(Locked(mWriteQueue)), mWriteQueue),
                       IF io = "ok" /\ fr THEN Free(buf) ELSE buf)

(***************************************************************************)
(* CJsonReadStream: add() and get().                                       *)
(***************************************************************************)
\* heap_caps_malloc(mSize + 1): mSize + 1 bytes, none of them written
FreshBuf(size) == [null |-> FALSE, bytes |-> [k \in 0..size |-> Junk]]

\* std::memcpy(&mBuf[at], src, Len(src))
JsonMemcpy(bytes, at, src) ==
    [k \in DOMAIN bytes |->
        IF k >= at /\ k < at + Len(src) THEN src[k - at + 1] ELSE bytes[k]]

\* std::string s((char *)mBuf): the bytes before the first 0
CStrLen(bytes) ==
    CHOOSE k \in DOMAIN bytes :
        bytes[k] = Nul /\ \A l \in 0..(k - 1) : bytes[l] # Nul

CStr(bytes) == [k \in 1..CStrLen(bytes) |-> bytes[k - 1]]

\* if (mBuf == nullptr) { mBuf = heap_caps_malloc(...); mBufIndex = 0; }
JsonAlloc(st) ==
    IF st.mBuf.null
    THEN [st EXCEPT !.mBuf = FreshBuf(st.mSize), !.mBufIndex = 0]
    ELSE st

\* the object that began at data[start] ends at data[i]
JsonWhole(st, data, i) ==
    IF (i - st.start + 1) < st.mSize
    THEN LET m == [JsonMemcpy(st.mBuf.bytes, 0,
                              SubSeq(data, st.start + 1, i + 1))
                      EXCEPT ![i - st.start + 1] = Nul]
         IN [st EXCEPT !.mBuf.bytes = m,
                       !.mStrings = Append(@, CStr(m)),
                       !.start = -1]
    ELSE [st EXCEPT !.start = -1]

\* a join that copies the last piece over the pieces kept before it
JsonJoinedAtStart(st, data, i) ==
    IF (i + st.mBufIndex) < st.mSize
    THEN LET m == [JsonMemcpy(st.mBuf.bytes, 0, SubSeq(data, 1, i + 1))
                      EXCEPT ![i + 1] = Nul]
         IN [st EXCEPT !.mBuf.bytes = m,
                       !.mStrings = Append(@, CStr(m)),
                       !.mBufIndex = 0,
                       !.joined = @ + 1]
    ELSE [st EXCEPT !.mBufIndex = 0]

\* the object that began in an earlier call ends at data[i]
JsonJoined(st, data, i) ==
    IF (i + st.mBufIndex) < st.mSize
    THEN LET m == [JsonMemcpy(st.mBuf.bytes, st.mBufIndex,
                              SubSeq(data, 1, i + 1))
                      EXCEPT ![st.mBufIndex + i + 1] = Nul]
         IN [st EXCEPT !.mBuf.bytes = m,
                       !.mStrings = Append(@, CStr(m)),
                       !.mBufIndex = 0,
                       !.joined = @ + 1]
    ELSE [st EXCEPT !.mBufIndex = 0]

\* the closing brace that brings mCount to 0
JsonCompleted(st, data, i) ==
    IF st.start # -1
    THEN JsonWhole(JsonAlloc(st), data, i)
    ELSE JsonJoined(JsonAlloc(st), data, i)

\* the body of the loop of add() for data[i]
JsonByte(st, data, i) ==
    IF st.mCount = 0
    THEN IF data[i + 1] = LBrace
         THEN [st EXCEPT !.mCount = 1, !.start = i]
         ELSE st
    ELSE IF data[i + 1] = LBrace
         THEN [st EXCEPT !.mCount = @ + 1]
         ELSE IF data[i + 1] = RBrace
              THEN IF st.mCount = 1
                   THEN JsonCompleted([st EXCEPT !.mCount = 0], data, i)
                   ELSE [st EXCEPT !.mCount = @ - 1]
              ELSE st

\* for (i = 0; i < size; i++)
RECURSIVE JsonLoop(_, _, _)
JsonLoop(st, data, i) ==
    IF i >= Len(data) THEN st
    ELSE JsonLoop(JsonByte(st, data, i), data, i + 1)

\* after the loop: the bytes of an object that is not complete are kept,
\* or the buffer is released
JsonKeep(st, data) ==
    IF st.mCount # 0
    THEN IF st.start # -1
         THEN IF (Len(data) - st.start) < st.mSize
              THEN [JsonAlloc(st) EXCEPT
                       !.mBuf.bytes =
                           JsonMemcpy(@, 0,
                                      SubSeq(data, st.start + 1, Len(data))),
                       !.mBufIndex = Len(data) - st.start]
              ELSE JsonAlloc(st)
         ELSE IF (Len(data) + st.mBufIndex) < st.mSize
              THEN [st EXCEPT
                       !.mBuf.bytes = JsonMemcpy(@, st.mBufIndex, data),
                       !.mBufIndex = @ + Len(data)]
              ELSE st
    ELSE IF st.mFree /\ ~st.mBuf.null
         THEN [st EXCEPT !.mBuf = NullBuf]
         ELSE st

\* the local start of add()
WithStart(j) ==
    [made |-> j.made, mSize |-> j.mSize, mFree |-> j.mFree, mBuf |-> j.mBuf,
     mBufIndex |-> j.mBufIndex, mCount |-> j.mCount,
     mStrings |-> j.mStrings, stream |-> j.stream, got |-> j.got,
     joined |-> j.joined, start |-> -1]

WithoutStart(st) ==
    [made |-> st.made, mSize |-> st.mSize, mFree |-> st.mFree,
     mBuf |-> st.mBuf, mBufIndex |-> st.mBufIndex, mCount |-> st.mCount,
     mStrings |-> st.mStrings, stream |-> st.stream, got |-> st.got,
     joined |-> st.joined]

\* add(data, size)
Add(j, data) == WithoutStart(JsonKeep(JsonLoop(WithStart(j), data, 0), data))

\* everything but the CJsonReadStream object
firmware ==
    <<ota, buf, fs, pc, mounted, caller, retTo, todo, cur, res, clearQ,
      transFiles, cdDir, cdRes, mWriteQueue, trace, lastLock, answer, snap,
      snapSet, crashes, crashMk, cleanSince, second, opened, depth, cmd0,
      cmdKind, cmdIn, cmdClear, crashPhase>>

\* CJsonReadStream(max_size, auto_free); mBufIndex has no initializer
JsonNew(sizes, frees, indexes) ==
    /\ ~js.made
    /\ \E size \in sizes, free \in frees, index \in indexes :
          js' = [NoStream EXCEPT !.made = TRUE, !.mSize = size,
                                 !.mFree = free, !.mBufIndex = index]
    /\ UNCHANGED firmware

JsonAdd(datas) ==
    /\ js.made
    /\ \E data \in datas :
          /\ Len(js.stream) + Len(data) <= MaxStream
          /\ js' = [Add(js, data) EXCEPT !.stream = js.stream \o data]
    /\ UNCHANGED firmware

\* get(str)
JsonGet ==
    /\ js.made
    /\ js' = IF js.mStrings # <<>>
             THEN [js EXCEPT !.got = Append(@, Head(js.mStrings)),
                             !.mStrings = Tail(@)]
             ELSE js
    /\ UNCHANGED firmware

(***************************************************************************)
(* COTASystem: the chunked 'ota' command and update().                     *)
(***************************************************************************)
\* an abort that forgets the handle but keeps the offset
AbortKeepsOffset(o) ==
    IF o.update_handle = 0 THEN o
    ELSE [o EXCEPT !.update_handle = 0, !.open = FALSE, !.written = 0]

\* abort(): if (update_handle != 0) { esp_ota_abort; update_handle = 0;
\* offset = 0; }
Abort(o) ==
    IF o.update_handle = 0 THEN o
    ELSE [o EXCEPT !.update_handle = 0, !.offset = 0, !.open = FALSE,
                   !.written = 0]

\* esp_ota_begin returned ESP_OK: update_handle names a new session
Begun(o) == [o EXCEPT !.update_handle = 1, !.open = TRUE, !.written = 0]

\* esp_ota_end returned ESP_OK and the statics are reset
Ended(o) ==
    [o EXCEPT !.update_handle = 0, !.offset = 0, !.open = FALSE,
              !.written = 0]

\* the call of update() that fails, or "ok"
UpdateOutcomes == { "ok", "partition", "begin", "write", "end", "boot" }

\* update(data, size): abort(), esp_ota_get_next_update_partition,
\* esp_ota_begin, esp_ota_write, esp_ota_end, esp_ota_set_boot_partition
Update(o, size, out) ==
    LET a == Abort(o)
        s == Begun(a)
        r == IF out = "partition" THEN a
             ELSE IF out = "begin" THEN [a EXCEPT !.update_handle = 0]
             ELSE IF out = "write" THEN Abort(s)
             ELSE IF out = "end" THEN Abort([s EXCEPT !.open = FALSE])
             ELSE [s EXCEPT !.update_handle = 0, !.open = FALSE,
                            !.written = 0]
    IN r

\* the data of an 'ota' command: none, a hex string that does not parse,
\* or len bytes
OtaNoData == [kind |-> "none", len |-> 0]
OtaBadHex == [kind |-> "bad", len |-> 0]
OtaBytes(n) == [kind |-> "bytes", len |-> n]

\* the call of command() that fails, or "ok"
OtaOutcomes == { "ok", "partition", "begin", "write", "end", "endPartition",
                 "boot" }

\* command(): "mode":"begin" aborts first
OtaEntered(o, mode) == IF mode = "begin" THEN Abort(o) ELSE o

\* ... and the data is written, to a session begun for it if there is none
OtaWritten(o, mode, data) ==
    LET s == IF OtaEntered(o, mode).update_handle = 0
             THEN Begun(OtaEntered(o, mode)) ELSE OtaEntered(o, mode)
    IN [s EXCEPT !.offset = s.offset + data.len,
                 !.written = s.written + data.len]

\* the error command() answers, "none" without one
OtaError(o, mode, data, out) ==
    IF data.kind = "bad" THEN "hex"
    ELSE IF data.kind = "none" THEN "format"
    ELSE IF OtaEntered(o, mode).update_handle = 0
            /\ out \in {"partition", "begin"} THEN out
    ELSE IF out = "write" THEN out
    ELSE IF mode = "end" /\ out \in {"end", "endPartition", "boot"} THEN out
    ELSE "none"

\* the statics and the session when command() returns
OtaState(o, mode, data, out) ==
    LET e == OtaError(o, mode, data, out)
        a == OtaEntered(o, mode)
        s == IF a.update_handle = 0 THEN Begun(a) ELSE a
        w == OtaWritten(o, mode, data)
    IN IF e \in {"hex", "format", "partition"} THEN a
       ELSE IF e = "begin" THEN [a EXCEPT !.update_handle = 0]
       ELSE IF e = "write" THEN Abort(s)
       ELSE IF e = "end" THEN Abort([w EXCEPT !.open = FALSE])
       ELSE IF mode = "end" THEN Ended(w)
       ELSE w

\* answer["ota"]["offset"] = offset, before the reset of an 'end'
OtaAnswer(o, mode, data, out) ==
    IF OtaError(o, mode, data, out) # "none"
    THEN [cmd |-> "otacmd", error |-> OtaError(o, mode, data, out),
          reported |-> FALSE, offset |-> 0]
    ELSE [cmd |-> "otacmd", error |-> "none", reported |-> TRUE,
          offset |-> OtaWritten(o, mode, data).offset]

OtaCommand(modes, datas, outs) ==
    /\ pc = "idle"
    /\ \E mode \in modes, data \in datas, out \in outs :
          /\ ota.offset + data.len <= MaxOffset
          /\ DoneOta("otacmd",
                     [mode |-> mode, data |-> data, out |-> out,
                      before |-> ota],
                     fs, OtaAnswer(ota, mode, data, out), <<>>, buf,
                     OtaState(ota, mode, data, out))

\* command 'ota': COTASystem::update(mBuffer, mSize) reads the buffer
BufOta(frees) ==
    /\ pc = "idle"
    /\ \E fr \in frees, out \in UpdateOutcomes :
          IF buf.mBuffer.null
          THEN DoneBuf("ota", [free |-> fr, before |-> buf, session |-> ota],
                       fs,
                       [cmd |-> "ota", cancel |-> FALSE,
                        error |-> "notCreated"], <<>>, buf)
          ELSE DoneOta("ota", [free |-> fr, before |-> buf, session |-> ota],
                       fs,
                       [cmd |-> "ota", cancel |-> FALSE,
                        error |-> IF out = "ok" THEN "none" ELSE "update"],
                       <<>>,
                       IF fr THEN Free(buf) ELSE buf,
                       Update(ota, buf.mSize, out))

\* a load that leaves the flag of the last part 0
LoadedLastPartUnset(b, p, bytes) ==
    [b EXCEPT !.mPart = PartOf(p),
              !.mLastPart = LastPartOf(b.mSize, PartOf(p)),
              !.mBuffer = [null |-> FALSE, bytes |-> bytes],
              !.mParts = [null |-> FALSE,
                          len |-> LastPartOf(b.mSize, PartOf(p)) + 1,
                          ones |-> 0..(LastPartOf(b.mSize, PartOf(p)) - 1)],
              !.mRead = TRUE,
              !.made = "rd",
              !.accepted = {},
              !.last = <<>>,
              !.file = bytes,
              !.given = {}]

\* command 'rd' once the file is open and init(sz) has succeeded
Loaded(b, p, bytes) ==
    [b EXCEPT !.mPart = PartOf(p),
              !.mLastPart = LastPartOf(b.mSize, PartOf(p)),
              !.mBuffer = [null |-> FALSE, bytes |-> bytes],
              !.mParts = NewParts(LastPartOf(b.mSize, PartOf(p)), 1),
              !.mRead = TRUE,
              !.made = "rd",
              !.accepted = {},
              !.last = <<>>,
              !.file = bytes,
              !.given = {}]

\* a failed load that keeps the byte region
LoadFailedNotFreed(b, p) ==
    [b EXCEPT !.mPart = PartOf(p),
              !.mLastPart = LastPartOf(b.mSize, PartOf(p))]

\* ... and fread has returned less than mSize: free()
LoadFailed(b, p) ==
    Free([b EXCEPT !.mPart = PartOf(p),
                   !.mLastPart = LastPartOf(b.mSize, PartOf(p))])

BufRdAnswer(f, name, io, b) ==
    IF io = "openFail" \/ ~Exists(f, name)
    THEN [cmd |-> "bufrd", cancel |-> FALSE, error |-> "open"]
    ELSE IF b.mBuffer.null THEN [cmd |-> "bufrd", cancel |-> FALSE, error |-> "notCreated"]
    ELSE IF io = "readFail" THEN [cmd |-> "bufrd", cancel |-> FALSE, error |-> "read"]
    ELSE [cmd |-> "bufrd", cancel |-> FALSE, error |-> "none"]

BufRd(names, parts, ios) ==
    /\ pc = "idle"
    /\ \E name \in names, p \in parts, io \in ios, alloc \in {"ok", "fail"} :
          IF io = "openFail" \/ ~Exists(fs, name)
          THEN DoneBuf("bufrd", [name |-> name, part |-> p, before |-> buf],
                       fs, BufRdAnswer(fs, name, io, buf), <<>>, buf)
          ELSE \E b \in {BufInit(buf, Len(fs[name]), alloc, fs[name])} :
                  /\ b.mBuffer.null \/ PartOf(p) # 0
                  /\ DoneBuf("bufrd",
                             [name |-> name, part |-> p, before |-> buf],
                             fs, BufRdAnswer(fs, name, io, b), <<>>,
                             IF b.mBuffer.null THEN b
                             ELSE IF io = "readFail" THEN LoadFailed(b, p)
                             ELSE Loaded(b, p, fs[name]))

\* 'rd' with a part of 0: the division by zero as in 'create'
BufRdDivZero(names, parts) ==
    /\ pc = "idle"
    /\ \E name \in names, p \in parts :
          /\ Exists(fs, name)
          /\ Len(fs[name]) # 0
          /\ PartOf(p) = 0
          /\ Crash

\* a command without the key 'buf': cancel = false and nothing else
BufNoKey ==
    /\ pc = "idle"
    /\ DoneBuf("nobuf", [before |-> buf], fs,
               [cmd |-> "nobuf", cancel |-> FALSE], <<>>, buf)

\* commands 'free' and 'cancel'
BufFree(kinds) ==
    /\ pc = "idle"
    /\ \E kind \in kinds :
          DoneBuf(kind, [before |-> buf], fs,
                  [cmd |-> kind,
                   error |-> IF buf.mBuffer.null THEN "notCreated"
                             ELSE "none",
                   cancel |-> (kind = "cancel" /\ ~buf.mBuffer.null)],
                  <<>>, Free(buf))

\* uint16_t part = data[0] + data[1] * 256; a packet of less than two
\* bytes leaves the missing bytes to whatever lies behind it
PacketParts(data) ==
    IF Len(data) >= 2 THEN { data[1] + data[2] * 256 }
    ELSE IF Len(data) = 1 THEN { data[1] + g * 256 : g \in {0, 1, 255} }
    ELSE { lo + g * 256 : lo \in {0, 1, 255}, g \in {0, 1, 255} }

\* the length addData asks of the packet for part
ExpectedSize(b, part) ==
    IF part < b.mLastPart THEN b.mPart + 2 ELSE LastSize(b) + 2

\* what addData logs: "stored", "rewrite", or the reason for dropping the
\* packet
AddDataLog(b, data, part) ==
    IF b.mBuffer.null \/ b.mParts.null THEN "null"
    ELSE IF part > b.mLastPart THEN "part"
    ELSE IF Len(data) # ExpectedSize(b, part) THEN "size"
    ELSE IF part \in b.mParts.ones THEN "rewrite"
    ELSE "stored"

\* an addData that copies the packet but sets no flag
AddDataBufNoFlag(b, data, part) ==
    IF b.mBuffer.null \/ b.mParts.null \/ part > b.mLastPart
       \/ Len(data) # (IF part < b.mLastPart THEN b.mPart + 2
                       ELSE b.mSize - b.mLastPart * b.mPart + 2)
    THEN b
    ELSE [b EXCEPT !.accepted = b.accepted \cup {part}]

\* an addData that does not copy a packet for a part already filled
AddDataBufFirstWins(b, data, part) ==
    IF b.mBuffer.null \/ b.mParts.null \/ part > b.mLastPart
       \/ Len(data) # (IF part < b.mLastPart THEN b.mPart + 2
                       ELSE b.mSize - b.mLastPart * b.mPart + 2)
    THEN b
    ELSE IF part \in b.mParts.ones
    THEN [b EXCEPT !.last = [i \in b.accepted |->
                               IF i = part THEN SubSeq(data, 3, Len(data))
                               ELSE b.last[i]]]
    ELSE [b EXCEPT !.mBuffer.bytes =
                       [k \in 1..Len(b.mBuffer.bytes) |->
                           IF k > part * b.mPart
                              /\ k <= part * b.mPart + Len(data) - 2
                           THEN data[k - part * b.mPart + 2]
                           ELSE b.mBuffer.bytes[k]],
                   !.mParts.ones = b.mParts.ones \cup {part},
                   !.accepted = b.accepted \cup {part},
                   !.last = [i \in b.accepted \cup {part} |->
                               IF i = part THEN SubSeq(data, 3, Len(data))
                               ELSE b.last[i]]]

\* memcpy(&mBuffer[part * mPart], &data[2], n)
Memcpy(bytes, at, data) ==
    [i \in 1..Len(bytes) |->
        IF i > at /\ i <= at + Len(data) - 2 THEN data[i - at + 2]
        ELSE bytes[i]]

AddDataBuf(b, data, part) ==
    IF AddDataLog(b, data, part) \notin {"stored", "rewrite"} THEN b
    ELSE [b EXCEPT !.mBuffer.bytes = Memcpy(b.mBuffer.bytes,
                                             part * b.mPart, data),
                   !.mParts.ones = b.mParts.ones \cup {part},
                   !.accepted = b.accepted \cup {part},
                   !.last = [i \in b.accepted \cup {part} |->
                               IF i = part THEN SubSeq(data, 3, Len(data))
                               ELSE b.last[i]]]

AddData(packets) ==
    /\ pc = "idle"
    /\ \E data \in packets :
       \E part \in PacketParts(data) :
          DoneBuf("addData", [data |-> data, part |-> part, before |-> buf],
                  fs, [cmd |-> "addData", log |-> AddDataLog(buf, data, part)],
                  <<>>, AddDataBuf(buf, data, part))

\* getData(size, index): the first part whose flag is 1; its flag is
\* cleared
GetDataReady(b) == b.mRead /\ ~b.mParts.null /\ b.mParts.ones # {}

\* the last part whose flag is 1
LastFilled(b) == CHOOSE i \in b.mParts.ones : \A k \in b.mParts.ones : i >= k

\* for (i = 0; i <= mLastPart; i++) if (mParts[i] == 1) ... break
FirstFilled(b) == CHOOSE i \in b.mParts.ones : \A k \in b.mParts.ones : i <= k

GetData ==
    /\ pc = "idle"
    /\ IF GetDataReady(buf)
       THEN \E i \in {FirstFilled(buf)} :
               DoneBuf("getData", [before |-> buf], fs,
                       [cmd |-> "getData", res |-> TRUE, index |-> i,
                        offset |-> i * buf.mPart,
                        size |-> IF i < buf.mLastPart THEN buf.mPart
                                 ELSE buf.mSize - i * buf.mPart],
                       <<>>,
                       [buf EXCEPT !.mParts.ones = buf.mParts.ones \ {i},
                                   !.given = buf.given \cup {i}])
       ELSE DoneBuf("getData", [before |-> buf], fs,
                    [cmd |-> "getData", res |-> FALSE], <<>>, buf)

(***************************************************************************)
(* Registration of write-event handlers.                                   *)
(***************************************************************************)
\* an addWriteEvent whose uniqueness loop never finds the handler
InQueueNever(q, h) == FALSE

\* addWriteEvent, the loop over mWriteQueue: e == event for some element
InQueue(q, h) == \E i \in 1..Len(q) : q[i] = h

AddWriteEvent(event) ==
    /\ pc = "idle"
    /\ mWriteQueue' = IF InQueue(mWriteQueue, event) THEN mWriteQueue
                      ELSE Append(mWriteQueue, event)
    /\ trace' = <<>>
    /\ cmd0' = EmptyFs
    /\ cmdKind' = "none"
    /\ cmdIn' = NoInput
    /\ UNCHANGED <<js, ota, buf, fs, pc, mounted, caller, retTo, todo, cur, res, depth,
                   lastLock, answer>>
    /\ UNCHANGED <<snap, snapSet, crashes, crashMk, cleanSince, second,
                   opened, cmdClear, crashPhase>>
    /\ UNCHANGED cdVars

RemoveWriteEvent(event) ==
    /\ pc = "idle"
    /\ mWriteQueue' = SelectSeq(mWriteQueue, LAMBDA item : item # event)
    /\ trace' = <<>>
    /\ cmd0' = EmptyFs
    /\ cmdKind' = "none"
    /\ cmdIn' = NoInput
    /\ UNCHANGED <<js, ota, buf, fs, pc, mounted, caller, retTo, todo, cur, res, depth,
                   lastLock, answer>>
    /\ UNCHANGED <<snap, snapSet, crashes, crashMk, cleanSince, second,
                   opened, cmdClear, crashPhase>>
    /\ UNCHANGED cdVars

\* clearDir, first loop: the names that have a staged-rename file
TransFilesOf(entries) ==
    { Stem(str) : str \in { e \in entries : Len(e) > 1 /\ LastChar(e) = "$" } }

\* clearDir, second loop: the entry gets a staged-delete file
ClearStages(tf, str) ==
    /\ str \notin tf
    /\ Len(str) > 1
    /\ LastChar(str) # "!"
    /\ LastChar(str) # "$"

\* fname = dirName + "/" + str + "!"
StagedDeleteName(dir, str) == dir \o <<"/">> \o str \o <<"!">>

\* command 'trans':'end': writeEvent(true), then the 'clear' list
TE_Begin(lists) ==
    /\ pc = "idle"
    /\ \E clear \in lists :
          /\ clearQ' = clear
          /\ cmdClear' = clear
    /\ pc' = "te_clear"
    /\ trace' = WriteEvent(<<>>, mWriteQueue, TRUE)
    /\ lastLock' = Delivered(lastLock, mWriteQueue, TRUE)
    /\ cmd0' = fs
    /\ cmdKind' = "end"
    /\ cmdIn' = NoInput
    /\ crashes' = 0
    /\ crashMk' = FALSE
    /\ UNCHANGED <<js, ota, buf, fs, mounted, caller, retTo, todo, cur, res, depth, mWriteQueue,
                   answer, transFiles, cdDir, cdRes>>
    /\ UNCHANGED <<snap, snapSet, cleanSince, second, opened, crashPhase>>

\* clearDir(dir): opendir, the first loop, closedir, opendir
TE_ClearDir ==
    /\ pc = "te_clear"
    /\ clearQ # <<>>
    /\ cdDir' = Head(clearQ)
    /\ clearQ' = Tail(clearQ)
    /\ transFiles' = TransFilesOf(DirEntries(fs, Head(clearQ)))
    /\ cdRes' = 0
    /\ todo' = DirEntries(fs, Head(clearQ))
    /\ pc' = "cd_loop"
    /\ UNCHANGED <<js, ota, buf, fs, mounted, caller, retTo, cur, res, depth>>
    /\ UNCHANGED <<hist, evVars>>

\* clearDir, second loop: one readdir entry.  The files the loop creates
\* end in '!' and are skipped when the stream returns them.
CD_Entry ==
    /\ pc = "cd_loop"
    /\ \E str \in todo :
          /\ todo' = todo \ {str}
          /\ IF ClearStages(transFiles, str)
             THEN /\ fs' = Create(fs, StagedDeleteName(cdDir, str), <<>>)
                  /\ trace' = Mut(trace)
                  /\ cleanSince' = FALSE
                  /\ cdRes' = (cdRes + 1) % 65536
             ELSE UNCHANGED <<fs, trace, cleanSince, cdRes>>
    /\ UNCHANGED <<js, ota, buf, pc, mounted, caller, retTo, cur, res, depth, mWriteQueue, lastLock,
                   answer>>
    /\ UNCHANGED <<snap, snapSet, crashes, crashMk, second, opened, cmd0,
                   cmdKind, cmdIn, cmdClear, crashPhase>>
    /\ UNCHANGED <<clearQ, transFiles, cdDir>>

\* clearDir returns
CD_Done ==
    /\ pc = "cd_loop"
    /\ todo = {}
    /\ pc' = "te_clear"
    /\ cdDir' = NoName
    /\ transFiles' = {}
    /\ cdRes' = 0
    /\ UNCHANGED <<js, ota, buf, fs, mounted, caller, retTo, todo, cur, res, depth, clearQ>>
    /\ UNCHANGED <<hist, evVars>>

\* fopen("/spiffs/$", "w"); fclose; endTransaction()
TE_Marker ==
    /\ pc = "te_clear"
    /\ clearQ = <<>>
    /\ fs' = Create(fs, Marker, <<>>)
    /\ trace' = Mut(trace)
    /\ pc' = "et_open"
    /\ caller' = "end"
    /\ cleanSince' = FALSE
    /\ UNCHANGED <<js, ota, buf, mounted, retTo, todo, cur, res, depth, mWriteQueue, lastLock, answer>>
    /\ UNCHANGED <<snap, snapSet, crashes, crashMk, second, opened, cmd0,
                   cmdKind, cmdIn, cmdClear, crashPhase>>
    /\ UNCHANGED cdVars

\* writeEvent(false); answer["spiffs"]["trans"] = "end"
TE_Return ==
    /\ pc = "et_ret"
    /\ caller = "end"
    /\ pc' = "idle"
    /\ caller' = "none"
    /\ res' = FALSE
    /\ trace' = WriteEvent(trace, mWriteQueue, FALSE)
    /\ lastLock' = Delivered(lastLock, mWriteQueue, FALSE)
    /\ answer' = [cmd |-> "trans", trans |-> "end"]
    /\ cleanSince' = TRUE
    /\ ResetHist
    /\ UNCHANGED <<js, ota, buf, fs, mounted, retTo, todo, cur, depth, mWriteQueue>>
    /\ UNCHANGED cdVars

\* command 'trans':'cancel': writeEvent(true); remove("/spiffs/$");
\* endTransaction()
CmdTransCancel ==
    /\ pc = "idle"
    /\ fs' = Remove(fs, Marker)
    /\ trace' = Mut(WriteEvent(<<>>, mWriteQueue, TRUE))
    /\ lastLock' = Delivered(lastLock, mWriteQueue, TRUE)
    /\ pc' = "et_open"
    /\ caller' = "cancel"
    /\ cmd0' = fs
    /\ cmdKind' = "cancel"
    /\ cmdIn' = NoInput
    /\ cmdClear' = <<>>
    /\ crashes' = 0
    /\ crashMk' = FALSE
    /\ cleanSince' = (cleanSince /\ ~Exists(fs, Marker))
    /\ UNCHANGED <<js, ota, buf, mounted, retTo, todo, cur, res, depth, mWriteQueue, answer>>
    /\ UNCHANGED <<snap, snapSet, second, opened, crashPhase>>
    /\ UNCHANGED cdVars

\* writeEvent(false); answer["spiffs"]["trans"] = "cancel"
TC_Return ==
    /\ pc = "et_ret"
    /\ caller = "cancel"
    /\ pc' = "idle"
    /\ caller' = "none"
    /\ res' = FALSE
    /\ trace' = WriteEvent(trace, mWriteQueue, FALSE)
    /\ lastLock' = Delivered(lastLock, mWriteQueue, FALSE)
    /\ answer' = [cmd |-> "trans", trans |-> "cancel"]
    /\ cleanSince' = TRUE
    /\ ResetHist
    /\ UNCHANGED <<js, ota, buf, fs, mounted, retTo, todo, cur, depth, mWriteQueue>>
    /\ UNCHANGED cdVars

ClearLists == { <<>> } \cup { <<d>> : d \in TxDirs }

ETSteps ==
    \/ ET_Open
    \/ ET_PurgeEntry
    \/ ET_PurgeDone
    \/ ET_DelEntry
    \/ ET_DelStaged
    \/ ET_DelDone
    \/ ET_RenEntry
    \/ ET_RenMove
    \/ ET_RenDone
    \/ ET_Finish

TxCt == CmdCt(TxNames, TxTexts, {"ok"})
TxEnd == TE_Begin(ClearLists)

NextTx ==
    \/ Boot
    \/ InitAfterET
    \/ InitCheckOk
    \/ InitGc
    \/ InitInfoOk
    \/ Crash
    \/ TxCt
    \/ CmdReturn
    \/ TxEnd
    \/ TE_ClearDir
    \/ CD_Entry
    \/ CD_Done
    \/ TE_Marker
    \/ TE_Return
    \/ CmdTransCancel
    \/ TC_Return
    \/ ETSteps

SpecTx == Init /\ [][NextTx]_vars

(***************************************************************************)
(* endTransaction() is a public static method: a direct call, also before  *)
(* init() has mounted the filesystem.                                      *)
(***************************************************************************)
ApiEndTransaction ==
    /\ pc \in {"off", "idle"}
    /\ retTo' = pc
    /\ pc' = "et_open"
    /\ caller' = "api"
    /\ trace' = <<>>
    /\ UNCHANGED <<js, ota, buf, fs, mounted, todo, cur, res, depth, mWriteQueue, lastLock,
                   answer>>
    /\ UNCHANGED <<hist, cdVars>>

ApiReturn ==
    /\ pc = "et_ret"
    /\ caller = "api"
    /\ pc' = retTo
    /\ retTo' = "off"
    /\ caller' = "none"
    /\ res' = FALSE
    /\ cleanSince' = opened
    /\ ResetHist
    /\ UNCHANGED <<js, ota, buf, fs, mounted, todo, cur, depth>>
    /\ UNCHANGED <<evVars, cdVars>>

NextApi ==
    \/ NextTx
    \/ ApiEndTransaction
    \/ ApiReturn

SpecApi == Init /\ [][NextApi]_vars

(***************************************************************************)
(* The command interface: every mutating command, with the failures the    *)
(* C library may report, and the registration of handlers.                 *)
(***************************************************************************)
CmdNames == { <<"f">>, <<"f","$">>, <<"d","/","g","g">> }
CmdTexts == { <<>>, <<1>> }
CmdIos == { "ok", "openFail", "writeFail" }
RenameIos == { "ok", "renameFail" }
CmdClearLists == { <<>>, << <<"d">> >> }

\* 'data' strings: well formed, a non-hex second or first character, a
\* sign, a leading blank, and odd lengths
WrDatas ==
    { <<>>, <<"0","1">>, <<"0","1","f","f">>,
      <<"1","g">>, <<"g","1">>, <<"-","1">>, <<" ","1">>,
      <<"0","1","1">>, <<"0","1","g">> }

\* 'offset' values: absent, 0 .. MaxLen, 2^32 and 2^31
WrOffsets ==
    { [given |-> TRUE, hi |-> 0, b31 |-> 0, lo |-> n] : n \in 0..MaxLen }
    \cup { NoOffset,
           [given |-> TRUE, hi |-> 1, b31 |-> 0, lo |-> 0],
           [given |-> TRUE, hi |-> 0, b31 |-> 1, lo |-> 0] }

IoCt == CmdCt(CmdNames, CmdTexts, CmdIos)
IoAt == CmdAt(CmdNames, CmdTexts, CmdIos)
IoWriteBuffer == WriteBuffer(CmdNames, CmdTexts, CmdIos)
IoRm == CmdRm(CmdNames)
IoRename == CmdRename(CmdNames, RenameIos)
IoWr == CmdWr(CmdNames, WrDatas, WrOffsets, CmdIos)

\* 'size' values of 'rd': absent, 0 .. MaxLen, 2^31
RdSizes ==
    { [given |-> TRUE, hi |-> 0, b31 |-> 0, lo |-> n] : n \in 0..MaxLen }
    \cup { NoOffset, [given |-> TRUE, hi |-> 0, b31 |-> 1, lo |-> 0] }
RdIos == { "ok", "openFail" }
IoRd == CmdRd(CmdNames, WrOffsets, RdSizes, RdIos)
IoEnd == TE_Begin(CmdClearLists)

TransSteps ==
    \/ TE_ClearDir
    \/ CD_Entry
    \/ CD_Done
    \/ TE_Marker
    \/ TE_Return
    \/ CmdTransCancel
    \/ TC_Return

NextCmd ==
    \/ Boot
    \/ InitAfterET
    \/ InitCheckOk
    \/ InitGc
    \/ InitInfoOk
    \/ IoCt
    \/ IoAt
    \/ IoWriteBuffer
    \/ IoRm
    \/ IoRename
    \/ IoWr
    \/ IoRd
    \/ CmdReturn
    \/ IoEnd
    \/ TransSteps
    \/ ETSteps

SpecCmd == Init /\ [][NextCmd]_vars

(***************************************************************************)
(* The same commands with write-event handlers registered.                 *)
(***************************************************************************)
EvNames == { <<"f">>, <<"f","$">>, <<"d","/","g","g">> }
EvTexts == { <<1>> }
EvDatas == { <<"0","1">>, <<"g","1">>, <<"0","1","1">> }
EvOffsets == { NoOffset, [given |-> TRUE, hi |-> 0, b31 |-> 0, lo |-> 1] }

EvAddWriteEvent == \E event \in Handlers : AddWriteEvent(event)
EvRemoveWriteEvent == \E event \in Handlers : RemoveWriteEvent(event)
EvCt == CmdCt(EvNames, EvTexts, CmdIos)
EvAt == CmdAt(EvNames, EvTexts, CmdIos)
EvWriteBuffer == WriteBuffer(EvNames, EvTexts, CmdIos)
EvRm == CmdRm(EvNames)
EvRename == CmdRename(EvNames, RenameIos)
EvWr == CmdWr(EvNames, EvDatas, EvOffsets, CmdIos)

NextEv ==
    \/ Boot
    \/ InitAfterET
    \/ InitCheckOk
    \/ InitGc
    \/ InitInfoOk
    \/ EvAddWriteEvent
    \/ EvRemoveWriteEvent
    \/ EvCt
    \/ EvAt
    \/ EvWriteBuffer
    \/ EvRm
    \/ EvRename
    \/ EvWr
    \/ CmdReturn
    \/ IoEnd
    \/ TransSteps
    \/ ETSteps

SpecEv == Init /\ [][NextEv]_vars

(***************************************************************************)
(* init(check) with both values of check and every result of the mount,    *)
(* the integrity check, the partition info and the format.                 *)
(***************************************************************************)
InitNames == { <<"$">>, <<"a","$">>, <<"d","/","b","c">> }
InitTexts == { <<1>> }

InitCt == CmdCt(InitNames, InitTexts, {"ok"})
InitFails == InitMountFail(BOOLEAN)
InitMounts == InitMount(BOOLEAN)
InitChecks == InitCheck(BOOLEAN)
InitInfos == InitInfo(BOOLEAN, BOOLEAN)

NextInit ==
    \/ InitFails
    \/ InitMounts
    \/ InitAfterET
    \/ InitChecks
    \/ InitGc
    \/ InitInfos
    \/ Crash
    \/ InitCt
    \/ CmdReturn
    \/ TxEnd
    \/ TransSteps
    \/ ETSteps

SpecInit == Init /\ [][NextInit]_vars

(***************************************************************************)
(* Listings: a root with plain files and subdirectories.                   *)
(***************************************************************************)
LsFileNames ==
    { <<"b">>, <<"a">>, <<"d","/","x">>, <<"d","/","y">>, <<"c","/","x">> }
LsTexts == { <<1>> }
LsDirs == { <<>>, <<"d">> }

\* 'offset' and 'count' values: absent, 0 .. MaxFiles, 2^32 and 2^31
LsNumbers ==
    { [given |-> TRUE, hi |-> 0, b31 |-> 0, lo |-> n] : n \in 0..MaxFiles }
    \cup { NoOffset,
           [given |-> TRUE, hi |-> 1, b31 |-> 0, lo |-> 0],
           [given |-> TRUE, hi |-> 0, b31 |-> 1, lo |-> 0] }

LsCt == CmdCt(LsFileNames, LsTexts, {"ok"})
LsRm == CmdRm(LsFileNames)
LsLs == CmdLs(LsDirs, LsNumbers, LsNumbers, RdIos)

NextLs ==
    \/ Boot
    \/ ET_Open
    \/ ET_PurgeEntry
    \/ ET_PurgeDone
    \/ InitAfterET
    \/ InitInfoOk
    \/ Crash
    \/ LsCt
    \/ LsRm
    \/ LsLs
    \/ CmdReturn

SpecLs == Init /\ [][NextLs]_vars

(***************************************************************************)
(* The buffer: made by 'create' or loaded from the file f, filled by       *)
(* packets, written to f.                                                  *)
(***************************************************************************)
BufSizes == 0..MaxBuf
BufPartFields ==
    { [given |-> FALSE, val |-> 0] }
    \cup { [given |-> TRUE, val |-> v] : v \in {0, 1, 2} }
BufNames == { <<"f">> }

\* packets: two bytes of part index, then 0 .. MaxBuf bytes; and packets of
\* less than two bytes
BufPayloads == { [i \in 1..n |-> 2] : n \in 0..MaxBuf }
BufPackets ==
    { <<>>, <<1>> }
    \cup { ix \o d : ix \in { <<0, 0>>, <<1, 0>>, <<2, 0>>, <<0, 1>> },
                     d \in BufPayloads }

BufDoCreate == BufCreate(BufSizes, BufPartFields)
BufDoCreateDivZero == BufCreateDivZero(BufSizes, BufPartFields)
BufDoWr == BufWr(BufNames, BOOLEAN, {"ok", "openFail"})
BufDoOta == BufOta(BOOLEAN)
BufDoRd == BufRd(BufNames, BufPartFields, {"ok", "openFail", "readFail"})
BufDoRdDivZero == BufRdDivZero(BufNames, BufPartFields)
BufDoFree == BufFree({"free", "cancel"})
BufDoAddData == AddData(BufPackets)

\* packets whose payloads differ, for a buffer of parts of 1 or 2 bytes
FillPayloads == UNION { [1..n -> {2, 3}] : n \in 1..2 }
FillPackets ==
    { ix \o d : ix \in { <<0, 0>>, <<1, 0>>, <<2, 0>> }, d \in FillPayloads }

FillCreate ==
    BufCreate(2..MaxBuf, { p \in BufPartFields : PartOf(p) \in {1, 2} })
FillAddData == AddData(FillPackets)
FillWr == BufWr(BufNames, BOOLEAN, {"ok"})

NextFill ==
    \/ Boot
    \/ ET_Open
    \/ ET_PurgeDone
    \/ InitAfterET
    \/ InitInfoOk
    \/ FillCreate
    \/ FillAddData
    \/ BufCheck
    \/ GetData
    \/ FillWr
    \/ CmdReturn

SpecFill == Init /\ [][NextFill]_vars

\* a file of one or two bytes, grown by 'at', is loaded and drained by
\* getData
DrainTexts == { <<1>>, <<1, 2>> }
DrainCt == CmdCt(BufNames, DrainTexts, {"ok"})
DrainAt == CmdAt(BufNames, { <<3>> }, {"ok"})
DrainRd ==
    BufRd(BufNames, { p \in BufPartFields : PartOf(p) # 0 },
          {"ok", "openFail", "readFail"})

NextDrain ==
    \/ Boot
    \/ ET_Open
    \/ ET_PurgeDone
    \/ InitAfterET
    \/ InitInfoOk
    \/ DrainCt
    \/ DrainAt
    \/ DrainRd
    \/ BufCheck
    \/ GetData
    \/ CmdReturn

SpecDrain == Init /\ [][NextDrain]_vars

(***************************************************************************)
(* A byte stream handed to CJsonReadStream in pieces.                      *)
(***************************************************************************)
\* the braces, the byte between them ('|', as any other byte), and 0
JsonBytes == { Nul } \cup (LBrace..RBrace)

JsonPieces == UNION { [1..n -> JsonBytes] : n \in 0..MaxPiece }

JsonSizes == { 3, 5 }

JsonConstruct == JsonNew(JsonSizes, BOOLEAN, {0, 2})

JsonFeed == JsonAdd(JsonPieces)

NextJson ==
    \/ JsonConstruct
    \/ JsonFeed
    \/ JsonGet

SpecJson == Init /\ [][NextJson]_vars

(***************************************************************************)
(* The firmware update: chunked 'ota' commands and the 'ota' of a buffer.  *)
(***************************************************************************)
OtaModes == { "begin", "end", "none" }

OtaDatas == { OtaNoData, OtaBadHex } \cup { OtaBytes(n) : n \in 0..2 }

OtaCreate == BufCreate({2}, {p \in BufPartFields : PartOf(p) = 1})

OtaUpdate == BufOta(BOOLEAN)

OtaChunk == OtaCommand(OtaModes, OtaDatas, OtaOutcomes)

NextOta ==
    \/ Boot
    \/ ET_Open
    \/ ET_PurgeDone
    \/ InitAfterET
    \/ InitInfoOk
    \/ OtaCreate
    \/ OtaUpdate
    \/ OtaChunk
    \/ CmdReturn

SpecOta == Init /\ [][NextOta]_vars

NextBuf ==
    \/ Boot
    \/ ET_Open
    \/ ET_PurgeEntry
    \/ ET_PurgeDone
    \/ InitAfterET
    \/ InitInfoOk
    \/ BufDoCreate
    \/ BufDoCreateDivZero
    \/ BufCheck
    \/ BufDoWr
    \/ BufDoOta
    \/ BufDoRd
    \/ BufDoRdDivZero
    \/ BufDoFree
    \/ BufNoKey
    \/ BufDoAddData
    \/ GetData
    \/ CmdReturn

SpecBuf == Init /\ [][NextBuf]_vars

(***************************************************************************)
(* The part arithmetic of 'create' and 'rd' on its own, for sizes and      *)
(* parts of any width.                                                     *)
(***************************************************************************)
\* mPart, mLastPart as 'create' and 'rd' compute them once init(size) has
\* succeeded; the answer holds the three fields
ComputeParts(sizes, parts) ==
    /\ pc = "off"
    /\ \E size \in sizes, part \in parts :
          answer' = [cmd |-> "parts", mSize |-> size, mPart |-> part,
                     mLastPart |-> LastPartOf(size, part)]
    /\ UNCHANGED <<js, ota, buf, fs, pc, mounted, caller, retTo, todo, cur, res,
                   clearQ, transFiles, cdDir, cdRes, mWriteQueue, trace,
                   lastLock, snap, snapSet, crashes, crashMk, cleanSince,
                   second, opened, depth, cmd0, cmdKind, cmdIn, cmdClear,
                   crashPhase>>

\* sizes around the part sizes and around 2^16 parts, up to 2^31 - 1
PartsSizes ==
    (1..(MaxBuf + 5))
    \cup { 199, 200, 201, 400, 450, 1000, 65534, 65535, 65536, 65537, 70000,
           131070, 131072, 13107000, 13107200, 13107201, 2147483647 }
PartsParts == { 1, 2, 3, 200, 65535 }

NextParts == ComputeParts(PartsSizes, PartsParts)

SpecParts == Init /\ [][NextParts]_vars

(***************************************************************************)
(* One buffer from its 'create' on, and a client that asks 'check' and     *)
(* sends again what is missing, among packets of any kind; the buffer is   *)
(* not released and not made anew.                                         *)
(***************************************************************************)
RetryCreate ==
    /\ buf.mBuffer.null
    /\ BufCreate(1..MaxBuf, { p \in BufPartFields : PartOf(p) # 0 })

\* the packet of the right length for part i
RightPacket(b, i) ==
    <<i % 256, i \div 256>> \o [k \in 1..(ExpectedSize(b, i) - 2) |-> 2]

\* the client sends the packet for an index that 'check' lists
RetryResend ==
    /\ pc = "idle"
    /\ ~buf.mParts.null
    /\ \E i \in (0..buf.mLastPart) \ buf.mParts.ones :
          AddData({RightPacket(buf, i)})

RetryWr == ~buf.mBuffer.null /\ BufWr(BufNames, {FALSE}, {"ok", "openFail"})
RetryOta == ~buf.mBuffer.null /\ BufOta({FALSE})

NextRetry ==
    \/ Boot
    \/ ET_Open
    \/ ET_PurgeDone
    \/ InitAfterET
    \/ InitInfoOk
    \/ RetryCreate
    \/ RetryResend
    \/ BufDoAddData
    \/ BufCheck
    \/ RetryWr
    \/ RetryOta
    \/ GetData
    \/ CmdReturn

\* the client keeps asking and keeps sending what is missing; a command
\* that has been answered returns
SpecRetry ==
    /\ Init
    /\ [][NextRetry]_vars
    /\ SF_vars(RetryResend)
    /\ SF_vars(BufCheck)
    /\ WF_vars(CmdReturn)

(***************************************************************************)
(* Vocabulary of the properties.                                           *)
(***************************************************************************)
\* an ordinary file name: it ends in no reserved suffix
Plain(n) == LastChar(n) # "$" /\ LastChar(n) # "!"

\* the protocol constraint of spec section 6: besides the marker the root
\* holds ordinary names and ordinary names with one reserved suffix
Ordinary(f) ==
    \A n \in Files(f) :
        n = Marker \/ Plain(n) \/ (Len(n) > 1 /\ Plain(ChopLast(n)))

RenameFileOf(n) == n \o <<"$">>
DeleteFileOf(n) == n \o <<"!">>

\* f restricted to the names of S
Restrict(f, S) == [n \in DOMAIN f \cap S |-> f[n]]

\* the non-reserved files of f
NonReserved(f) == Restrict(f, { n \in DOMAIN f : Plain(n) })

\* what a commit of the staged files of f is to leave: name holds the
\* content of name$, name is gone when only name! exists, the rest stays
Committed(f) ==
    LET renamed == { ChopLast(n) : n \in { m \in Files(f) :
                                     Len(m) > 1 /\ LastChar(m) = "$" } }
        kept == { n \in Files(f) :
                    Plain(n) /\ ~Exists(f, DeleteFileOf(n)) }
    IN [n \in renamed \cup kept |->
           IF Exists(f, RenameFileOf(n)) THEN f[RenameFileOf(n)] ELSE f[n]]

\* clearDir(dir) as a whole
ClearDirAll(f, dir) ==
    LET ents == DirEntries(f, dir)
        new == { StagedDeleteName(dir, str) :
                   str \in { e \in ents : ClearStages(TransFilesOf(ents), e) } }
    IN [m \in Files(f) \cup new |-> IF m \in new THEN <<>> ELSE f[m]]

RECURSIVE ClearAll(_, _)
ClearAll(f, dirs) ==
    IF dirs = <<>> THEN f ELSE ClearAll(ClearDirAll(f, Head(dirs)), Tail(dirs))

\* no transaction artifact is left
Clean(f) == \A n \in Files(f) : Plain(n)

(***************************************************************************)
(* C1 (recovery after an interrupted replay).  Whenever a replay that      *)
(* began with the marker and ordinary staged files was cut by a power loss *)
(* while the marker existed, the endTransaction run that completes         *)
(* afterwards returns with every name holding the content its name$ file   *)
(* had when the replay began, and with no name$ file left.                 *)
(***************************************************************************)
C1_RecoveryCompletesRenames ==
    (pc = "et_ret" /\ crashMk /\ Exists(snap, Marker) /\ Ordinary(snap))
    => \A n \in Files(snap) :
          (Len(n) > 1 /\ LastChar(n) = "$")
          => /\ Exists(fs, ChopLast(n))
             /\ fs[ChopLast(n)] = snap[n]
             /\ ~Exists(fs, n)

C1_Witness ==
    /\ pc = "et_ret"
    /\ crashMk
    /\ caller = "init"
    /\ Exists(snap, Marker)
    /\ Ordinary(snap)
    /\ Exists(snap, <<"a">>)
    /\ Exists(snap, <<"a", "$">>)
    /\ snap[<<"a">>] # snap[<<"a", "$">>]

(***************************************************************************)
(* C2 ('trans:end' is all-or-nothing under power loss).  When a            *)
(* 'trans:end' issued on ordinary files has run to its end, or was cut by  *)
(* a power loss and the endTransaction of the next init() has returned,    *)
(* the non-reserved files are exactly those before the command if power    *)
(* was lost before the marker was created, and exactly those of the        *)
(* commit otherwise.                                                       *)
(***************************************************************************)
C2_TransEndAllOrNothing ==
    (pc = "et_ret" /\ cmdKind = "end" /\ Ordinary(cmd0)
        /\ ~Exists(cmd0, Marker))
    => IF crashPhase = "before"
       THEN NonReserved(fs) = NonReserved(cmd0)
       ELSE NonReserved(fs) = NonReserved(Committed(ClearAll(cmd0, cmdClear)))

C2_Witness ==
    /\ pc = "et_ret"
    /\ cmdKind = "end"
    /\ crashPhase = "after"
    /\ caller = "init"
    /\ cmdClear # <<>>
    /\ Ordinary(cmd0)
    /\ Exists(cmd0, <<"a", "$">>)
    /\ Exists(cmd0, <<"d", "/", "b", "c">>)
    /\ Exists(fs, <<"a">>)
    /\ ~Exists(fs, <<"d", "/", "b", "c">>)

(***************************************************************************)
(* C3 (idempotence), as claimed.  An endTransaction call that follows a    *)
(* returned call with no filesystem change in between returns false and    *)
(* changes nothing, whatever the root holds.                               *)
(***************************************************************************)
C3_SecondCallClean ==
    (pc = "et_ret" /\ second) => (res = FALSE /\ fs = snap)

C5_OrphansPurged ==
    (pc = "et_ret" /\ ~Exists(snap, Marker))
    => fs = NonReserved(snap)

C5_Witness ==
    /\ pc = "et_ret"
    /\ caller = "cancel"
    /\ Exists(cmd0, Marker)
    /\ ~Exists(snap, Marker)
    /\ Exists(snap, <<"a">>)
    /\ Exists(snap, <<"a", "$">>)
    /\ snap[<<"a">>] # snap[<<"a", "$">>]
    /\ ~Exists(fs, <<"a", "$">>)

C7_NoStagedEntryLeft ==
    (pc = "et_ret" /\ Exists(snap, Marker) /\ crashes = 0 /\ opened)
    => \A n \in Files(fs) : ~IsStagedRename(n) /\ ~IsStagedDelete(n)

(***************************************************************************)
(* Write-event notifications of the commands.                              *)
(***************************************************************************)
Bracket(q, mid) == CallAll(q, TRUE) \o mid \o CallAll(q, FALSE)

WellFormedHex(hex) ==
    /\ Len(hex) % 2 = 0
    /\ \A i \in 1..Len(hex) : hex[i] \in HexDigits

\* the bytes a well-formed hex string encodes
HexBytes(hex) ==
    [i \in 1..(Len(hex) \div 2) |->
        16 * HexValue(hex[2 * i - 1]) + HexValue(hex[2 * i])]

SizeOf(f, n) == IF Exists(f, n) THEN Len(f[n]) ELSE 0
ContentOf(f, n) == IF Exists(f, n) THEN f[n] ELSE <<>>

\* the requested offset against a file size (an absent offset is 0)
OffsetBelow(o, size) == o.hi = 0 /\ o.b31 = 0 /\ o.lo < size
OffsetAbove(o, size) == o.hi > 0 \/ o.b31 = 1 \/ o.lo > size

WrReturned == pc = "cmd_ret" /\ cmdKind = "wr" /\ cmdIn.hasData

WrSemantics ==
    LET name == cmdIn.name
        o == cmdIn.offset
        d == HexBytes(cmdIn.hex)
        size == SizeOf(cmd0, name)
    IN /\ OffsetBelow(o, size) => answer.rewrite
       /\ answer.error # "none" <=> OffsetAbove(o, size)
       /\ ~OffsetAbove(o, size) =>
             /\ Exists(fs, name)
             /\ fs[name] = SubSeq(ContentOf(cmd0, name), 1, o.lo) \o d
             /\ answer.error = "none"
             /\ answer.size = Len(d)

\* C9: a 'wr' with offset o and data d on a file of size s (0 when absent)
\* truncates the file to o and answers rewrite:true when o < s, is rejected
\* with an error exactly when o > s, and otherwise leaves the first o old
\* bytes followed by d and reports the length of d.
C9_WrOffsetSemantics ==
    (WrReturned /\ WellFormedHex(cmdIn.hex) /\ cmdIn.io = "ok") => WrSemantics

\* the same for offsets below 2^31
C9_WrOffsetSemanticsInt ==
    (/\ WrReturned /\ WellFormedHex(cmdIn.hex) /\ cmdIn.io = "ok"
     /\ cmdIn.offset.hi = 0 /\ cmdIn.offset.b31 = 0) => WrSemantics

\* C10: a 'data' string that is not a well-formed hex encoding makes 'wr'
\* return an error without any file operation and without a write event.
C10_MalformedHexRejected ==
    (WrReturned /\ ~WellFormedHex(cmdIn.hex))
        => /\ answer.error = "hex"
           /\ fs = cmd0
           /\ trace = <<>>

\* the same for strings whose first character of a pair is no hex digit,
\* sign or blank
C10_NoDigitRejected ==
    (WrReturned /\ \E i \in 1..Len(cmdIn.hex) :
                      i % 2 = 1 /\ cmdIn.hex[i] \notin HexDigits \cup {"-", " "})
        => /\ answer.error = "hex"
           /\ fs = cmd0
           /\ trace = <<>>

\* C11: a 'wr' rejected because its offset is greater than the file size
\* leaves the filesystem exactly as it was; a file that did not exist is
\* not created.
C11_WrongOffsetNoChange ==
    (WrReturned /\ answer.error = "offset") => fs = cmd0

\* the same for a target file that existed before the command
C11_WrongOffsetKeepsExisting ==
    (WrReturned /\ answer.error = "offset" /\ Exists(cmd0, cmdIn.name))
        => fs = cmd0

(***************************************************************************)
(* Command 'rd' after 'wr'.                                                *)
(***************************************************************************)
\* the 'size' field that asks for n bytes
SizeField(n) == [given |-> TRUE, hi |-> 0, b31 |-> 0, lo |-> n]

WrSucceeded == WrReturned /\ answer.error = "none"

\* what an 'rd' of the written file, with the offset of the 'wr' and the
\* number of bytes written, answers
RdAfterWr ==
    RdAnswer(fs, cmdIn.name, cmdIn.offset, SizeField(answer.size), "ok")

\* C12: after a successful 'wr' of bytes d at offset o, an 'rd' of the same
\* file with the same offset and size = length of d returns the hex
\* encoding of exactly d.
C12_ReadBackWritten ==
    WrSucceeded =>
        /\ RdAfterWr.error = "none"
        /\ WellFormedHex(RdAfterWr.data)
        /\ HexBytes(RdAfterWr.data) = DecodeHex(cmdIn.hex).data

\* the same for offsets below 2^31
C12_ReadBackWrittenInt ==
    (WrSucceeded /\ cmdIn.offset.b31 = 0) =>
        /\ RdAfterWr.error = "none"
        /\ WellFormedHex(RdAfterWr.data)
        /\ HexBytes(RdAfterWr.data) = DecodeHex(cmdIn.hex).data

(***************************************************************************)
(* Command 'rm'.                                                           *)
(***************************************************************************)
RmReturned == pc = "cmd_ret" /\ cmdKind = "rm"

\* C13: an 'rm' of a path that does not exist answers a warning and no
\* error, changes nothing and answers the same when repeated; an 'rm' of
\* an existing file removes that file and no other.
C13_RmAbsentWarnsRmPresentRemoves ==
    RmReturned =>
        IF Exists(cmd0, cmdIn.name)
        THEN /\ ~Exists(fs, cmdIn.name)
             /\ Files(fs) = Files(cmd0) \ {cmdIn.name}
             /\ \A n \in Files(fs) : fs[n] = cmd0[n]
        ELSE /\ answer.warning
             /\ answer.error = "none"
             /\ fs = cmd0
             /\ RmAnswer(fs, cmdIn.name) = answer

\* an 'rm' of an absent path on a flash that holds a file
C13_Witness ==
    /\ RmReturned
    /\ ~Exists(cmd0, cmdIn.name)
    /\ answer.warning
    /\ Files(fs) # {}
    /\ trace = <<>>

(***************************************************************************)
(* Command 'old'/'new'.                                                    *)
(***************************************************************************)
RenameReturned == pc = "cmd_ret" /\ cmdKind = "rename"

RenameSucceeded ==
    RenameReturned /\ answer.error = "none" /\ ~answer.warning

\* C14: a rename whose source exists and which reports success ends with
\* the new path holding exactly the content the source had and the old
\* path absent, whether or not the destination existed; the former content
\* of an existing destination is gone.
C14_RenameMovesContent ==
    (RenameSucceeded /\ Exists(cmd0, cmdIn.old)) =>
        /\ Exists(fs, cmdIn.new)
        /\ fs[cmdIn.new] = cmd0[cmdIn.old]
        /\ ~Exists(fs, cmdIn.old)
        /\ Files(fs) = (Files(cmd0) \ {cmdIn.old}) \cup {cmdIn.new}
        /\ \A n \in Files(fs) \ {cmdIn.new} : fs[n] = cmd0[n]

\* a successful rename over a destination that held a different content
C14_Witness ==
    /\ RenameSucceeded
    /\ Exists(cmd0, cmdIn.old)
    /\ Exists(cmd0, cmdIn.new)
    /\ cmd0[cmdIn.new] # cmd0[cmdIn.old]
    /\ fs[cmdIn.new] = cmd0[cmdIn.old]

\* C15, as claimed: a rename whose source path does not exist is answered
\* with a warning, never with an error, and changes no file.
C15_MissingSourceWarns ==
    (RenameReturned /\ ~Exists(cmd0, cmdIn.old)) =>
        /\ answer.warning
        /\ answer.error = "none"
        /\ fs = cmd0

\* C15, as the code has it: a rename whose source path does not exist
\* changes no file; it is answered with a warning and no error when the
\* destination exists, and with an error and no warning when the
\* destination does not exist either.
C15_MissingSourceWarnsIfTargetExists ==
    (RenameReturned /\ ~Exists(cmd0, cmdIn.old)) =>
        /\ fs = cmd0
        /\ Exists(cmd0, cmdIn.new)
              => (answer.warning /\ answer.error = "none")
        /\ ~Exists(cmd0, cmdIn.new)
              => (~answer.warning /\ answer.error # "none")

\* a rename of a missing source onto an existing destination
C15_Witness ==
    /\ RenameReturned
    /\ ~Exists(cmd0, cmdIn.old)
    /\ Exists(cmd0, cmdIn.new)
    /\ answer.warning
    /\ fs = cmd0

(***************************************************************************)
(* clearDir.                                                               *)
(***************************************************************************)
\* clearDir(cdDir) is about to return; it was the only directory of the
\* 'clear' list, so cmd0 is the filesystem it started on
ClearDirReturns ==
    /\ pc = "cd_loop"
    /\ todo = {}
    /\ cmdKind = "end"
    /\ Len(cmdClear) = 1
    /\ crashes = 0

\* the files of dir that are to get a staged-delete file: no reserved
\* suffix, no staged-rename file
ToBeCleared(f, dir) ==
    { e \in DirEntries(f, dir) :
        Plain(e) /\ RenameFileOf(e) \notin DirEntries(f, dir) }

ClearDirDoes(staged) ==
    LET new == { StagedDeleteName(cdDir, e) : e \in staged }
    IN /\ Files(fs) = Files(cmd0) \cup new
       /\ \A n \in new : fs[n] = <<>>
       /\ \A n \in Files(cmd0) \ new : fs[n] = cmd0[n]
       /\ cdRes = Cardinality(new)

\* C16: clearDir(d) creates an empty name! for every file name of d that
\* has no reserved suffix and no staged-rename file name$, creates none for
\* any other file, changes no existing file, and returns the number of
\* files it created.
C16_ClearDirStagesEveryFile ==
    ClearDirReturns => ClearDirDoes(ToBeCleared(cmd0, cdDir))

\* the same, for the names of more than one character only
C16_ClearDirStagesLongNames ==
    ClearDirReturns =>
        ClearDirDoes({ e \in ToBeCleared(cmd0, cdDir) : Len(e) > 1 })

(***************************************************************************)
(* init.                                                                   *)
(***************************************************************************)
InitReturned == answer.cmd = "init" /\ answer.done

Called(what) == \E i \in 1..Len(answer.calls) : answer.calls[i][1] = what
CalledWith(what, ok) ==
    \E i \in 1..Len(answer.calls) : answer.calls[i] = <<what, ok>>

LsReturned == pc = "cmd_ret" /\ cmdKind = "ls" /\ answer.error = "none"

\* a requested number that no position of a listing reaches
Huge(n) == n.given /\ (n.hi > 0 \/ n.b31 = 1)

\* positions o .. o+c-1, counted from 0, of a sequence
PageOf(all, o, c) ==
    LET from == IF o.given THEN o.lo ELSE 0
        upto == IF ~c.given \/ Huge(c) \/ from + c.lo > Len(all)
                THEN Len(all) ELSE from + c.lo
    IN IF Huge(o) THEN <<>> ELSE SubSeq(all, from + 1, upto)

\* C18: an 'ls' with offset o and count c answers exactly the entries at
\* positions o .. o+c-1 (all from o on when count is absent) of the plain
\* files in enumeration order followed by the subdirectories in name order.
C18_LsReturnsPage ==
    LsReturned =>
        answer.files = PageOf(LsEntries(cmd0, cmdIn.dir), cmdIn.offset,
                              cmdIn.count)

\* the same for offsets and counts below 2^31
C18_LsReturnsPageInt ==
    (LsReturned /\ ~Huge(cmdIn.offset) /\ ~Huge(cmdIn.count)) =>
        answer.files = PageOf(LsEntries(cmd0, cmdIn.dir), cmdIn.offset,
                              cmdIn.count)

C18_Witness ==
    /\ LsReturned
    /\ cmdIn.dir = <<>>
    /\ Len(LsEntries(cmd0, <<>>)) = 3
    /\ cmdIn.offset.given /\ cmdIn.offset.lo = 1 /\ ~Huge(cmdIn.offset)
    /\ cmdIn.count.given /\ cmdIn.count.lo = 1 /\ ~Huge(cmdIn.count)
    /\ Len(answer.files) = 1
    /\ answer.files[1].dir


CheckReturned == pc = "cmd_ret" /\ cmdKind = "check" /\ answer.error = "none"

\* in ascending order, the indices of 0..mLastPart no packet has been
\* accepted for since the buffer was made, as 'check' writes them
NotAccepted(b) ==
    LET idx == SelectSeq([k \in 1..(b.mLastPart + 1) |-> k - 1],
                         LAMBDA i : i \notin b.accepted)
    IN [k \in 1..Len(idx) |-> ToDecimal(idx[k])]

\* C19: 'check' returns, in ascending order, exactly the indices in
\* 0..lastPart for which no packet has been accepted since the buffer was
\* created.
C19_CheckListsNotAccepted ==
    CheckReturned => answer.empty = NotAccepted(cmdIn.before)

\* C19 for a buffer made by the command 'create': 'check' returns, in
\* ascending order, exactly the indices in 0..lastPart for which no packet
\* has been accepted since; every index right after 'create', none once
\* each has been filled.
C19_CheckListsNotAcceptedAfterCreate ==
    (CheckReturned /\ cmdIn.before.made = "create") =>
        /\ answer.empty = NotAccepted(cmdIn.before)
        /\ cmdIn.before.accepted = {}
             => Len(answer.empty) = cmdIn.before.mLastPart + 1
        /\ cmdIn.before.accepted = 0..cmdIn.before.mLastPart
             => answer.empty = <<>>

C19_Witness ==
    /\ CheckReturned
    /\ cmdIn.before.made = "create"
    /\ cmdIn.before.mLastPart = 1
    /\ cmdIn.before.accepted = {0}
    /\ answer.empty = << <<"1">> >>

AddDataReturned == pc = "cmd_ret" /\ cmdKind = "addData"

\* the packet has been copied into the buffer and its part flagged
Stored(b, data, i) ==
    /\ ~buf.mBuffer.null
    /\ Len(buf.mBuffer.bytes) = Len(b.mBuffer.bytes)
    /\ \A k \in 1..Len(b.mBuffer.bytes) :
          buf.mBuffer.bytes[k] =
             IF k > i * b.mPart /\ k <= i * b.mPart + Len(data) - 2
             THEN data[k - i * b.mPart + 2]
             ELSE b.mBuffer.bytes[k]
    /\ buf.mParts.ones = b.mParts.ones \cup {i}

\* a buffer exists, i <= lastPart, and the packet is part + 2 bytes long
\* for i < lastPart, (size - lastPart * part) + 2 for i = lastPart
Acceptable(b, data) ==
    /\ ~b.mBuffer.null
    /\ Len(data) >= 2
    /\ LET i == data[1] + data[2] * 256
       IN /\ i <= b.mLastPart
          /\ Len(data) = IF i < b.mLastPart THEN b.mPart + 2
                         ELSE (b.mSize - b.mLastPart * b.mPart) + 2

\* C20: addData accepts a packet for part i (its first two bytes,
\* little-endian) if and only if a buffer exists, i <= lastPart and the
\* packet has the length of that part plus 2; a rejected packet changes
\* neither the buffer bytes nor any fill flag.
C20_AddDataAcceptsIffFits ==
    AddDataReturned =>
        IF Acceptable(cmdIn.before, cmdIn.data)
        THEN /\ answer.log \in {"stored", "rewrite"}
             /\ Stored(cmdIn.before, cmdIn.data,
                       cmdIn.data[1] + cmdIn.data[2] * 256)
        ELSE /\ answer.log \notin {"stored", "rewrite"}
             /\ buf.mBuffer = cmdIn.before.mBuffer
             /\ buf.mParts = cmdIn.before.mParts

C20_Witness ==
    /\ AddDataReturned
    /\ cmdIn.before.mSize = 3
    /\ cmdIn.before.mPart = 2
    /\ cmdIn.before.mLastPart = 1
    /\ cmdIn.before.mBuffer.bytes = <<0, 1, 0>>
    /\ cmdIn.data = <<1, 0, 2>>
    /\ answer.log = "stored"
    /\ buf.mBuffer.bytes = <<0, 1, 2>>
    /\ buf.mParts.ones = {1}

PartsComputed == answer.cmd = "parts"

\* lastPart * P < S <= (lastPart + 1) * P, with quotients so that no product
\* leaves 32 bits
ValidLastPart(S, P, lastPart) ==
    /\ lastPart <= (S - 1) \div P
    /\ (S - 1) \div P <= lastPart

\* C21: for every buffer of size S >= 1 and part size P >= 1 that 'create'
\* or 'rd' sets up, lastPart * P < S <= (lastPart + 1) * P.
C21_LastPartIsFinalIndex ==
    PartsComputed => ValidLastPart(answer.mSize, answer.mPart, answer.mLastPart)

\* the same when the buffer has at most 2^16 parts
C21_LastPartIsFinalIndexUpTo65536Parts ==
    (PartsComputed /\ (answer.mSize - 1) \div answer.mPart < 65536)
        => ValidLastPart(answer.mSize, answer.mPart, answer.mLastPart)

BufWrReturned == pc = "cmd_ret" /\ cmdKind = "bufwr"

\* every fill flag of the buffer is set
Filled(b) == ~b.mParts.null /\ b.mParts.ones = 0..b.mLastPart

\* C22: after every part has been filled, 'wr' leaves a file under the given
\* name whose content is exactly the bytes of the buffer, whatever the
\* filesystem held before.
C22_WrLeavesBufferBytes ==
    (BufWrReturned /\ answer.error = "none" /\ Filled(cmdIn.before)) =>
        /\ Exists(fs, cmdIn.name)
        /\ fs[cmdIn.name] = cmdIn.before.mBuffer.bytes

\* what the code does: a 'wr' that succeeds appends the bytes of the
\* buffer to the file of that name, so the file holds exactly the buffer if
\* it was absent or empty before; no other file changes.
C22_WrAppendsBufferBytes ==
    (BufWrReturned /\ answer.error = "none" /\ Filled(cmdIn.before)) =>
        /\ Exists(fs, cmdIn.name)
        /\ fs[cmdIn.name] = ContentOf(cmd0, cmdIn.name)
                               \o cmdIn.before.mBuffer.bytes
        /\ Files(fs) = Files(cmd0) \cup {cmdIn.name}
        /\ \A n \in Files(cmd0) \ {cmdIn.name} : fs[n] = cmd0[n]

C22_Witness ==
    /\ BufWrReturned
    /\ answer.error = "none"
    /\ cmdIn.before.made = "create"
    /\ cmdIn.before.mSize = 2
    /\ cmdIn.before.mPart = 1
    /\ cmdIn.before.accepted = {0, 1}
    /\ ~Exists(cmd0, cmdIn.name)
    /\ fs[cmdIn.name] = <<2, 2>>

\* the buffer has been written to a file, or handed to COTASystem::update
HandedOver(kind) ==
    /\ pc = "cmd_ret"
    /\ cmdKind = kind
    /\ answer.error # "notCreated"

\* C23: in no reachable state is a buffer with an unfilled part written to
\* a file by 'wr' or handed to the firmware update by 'ota'.
C23_OnlyFilledBufferCommitted ==
    ((HandedOver("bufwr") /\ answer.error = "none") \/ HandedOver("ota"))
        => Filled(cmdIn.before)

GetDataReturned == pc = "cmd_ret" /\ cmdKind = "getData"

\* the buffer 'rd' loaded is still there and no packet has been accepted
\* since
LoadedUntouched(b) == b.made = "rd" /\ ~b.mBuffer.null /\ b.accepted = {}

\* C24: after a successful 'rd', with no addData in between, the parts not
\* yet handed out are always k..lastPart for some k; getData returns part k
\* (offset k * part, length part, or size - lastPart * part for the last),
\* clears its flag and nothing else, and returns nullptr once none is left.
C24_GetDataAscendingOnce ==
    /\ LoadedUntouched(buf) =>
          \E k \in 0..(buf.mLastPart + 1) : buf.mParts.ones = k..buf.mLastPart
    /\ (GetDataReturned /\ LoadedUntouched(cmdIn.before)) =>
          LET b == cmdIn.before
              k == b.mLastPart + 1 - Cardinality(b.mParts.ones)
          IN IF k <= b.mLastPart
             THEN /\ answer.res
                  /\ answer.index = k
                  /\ answer.offset = k * b.mPart
                  /\ answer.size = IF k < b.mLastPart THEN b.mPart
                                   ELSE b.mSize - b.mLastPart * b.mPart
                  /\ buf = [b EXCEPT !.mParts.ones = (k + 1)..b.mLastPart,
                                      !.given = b.given \cup {k}]
             ELSE /\ ~answer.res
                  /\ buf = b

C24_Witness ==
    /\ GetDataReturned
    /\ LoadedUntouched(cmdIn.before)
    /\ cmdIn.before.mLastPart = 1
    /\ cmdIn.before.mParts.ones = {1}
    /\ answer.res
    /\ answer.index = 1
    /\ buf.mParts.ones = {}

\* 'check' has answered the empty list
CheckEmpty == CheckReturned /\ answer.empty = <<>>

\* no fill flag is cleared while the buffer stays
FlagsKept ==
    (~buf.mParts.null /\ ~buf'.mParts.null)
        => buf.mParts.ones \subseteq buf'.mParts.ones

\* C25: from a 'create' on, while the buffer is neither released nor made
\* anew and the client keeps sending a packet of the right length for every
\* index 'check' lists, 'check' eventually answers the empty list and
\* answers it ever after, and no index it has stopped listing is listed
\* again.
C25_RetryLoopConverges ==
    /\ (~buf.mParts.null) ~> CheckEmpty
    /\ [](CheckEmpty => [](CheckReturned => answer.empty = <<>>))
    /\ [][FlagsKept]_vars

C25_Witness ==
    /\ CheckEmpty
    /\ cmdIn.before.made = "create"
    /\ cmdIn.before.mLastPart = 2
    /\ cmdIn.before.accepted = {0, 1, 2}

\* command() of the buffer has returned
BufCommandReturned ==
    /\ pc = "cmd_ret"
    /\ cmdKind \in {"create", "check", "bufwr", "ota", "bufrd", "free",
                    "cancel", "nobuf"}

\* C26: a 'cancel' command releases the buffer and sets the cancel output
\* to true; every other command sets it to false.
C26_CancelSetsCancel ==
    BufCommandReturned =>
        IF cmdKind = "cancel"
        THEN answer.cancel /\ buf.mBuffer.null /\ buf.mParts.null
        ELSE ~answer.cancel

\* the same for a 'cancel' that finds a buffer; without one it answers an
\* error and leaves cancel false
C26_CancelWithBufferSetsCancel ==
    BufCommandReturned =>
        IF cmdKind = "cancel"
        THEN /\ buf.mBuffer.null /\ buf.mParts.null
             /\ answer.cancel <=> ~cmdIn.before.mBuffer.null
             /\ cmdIn.before.mBuffer.null => answer.error = "notCreated"
        ELSE ~answer.cancel

\* 'create' or 'rd' has answered an error
MakeFailed ==
    /\ pc = "cmd_ret"
    /\ \/ cmdKind = "create" /\ ~answer.ok
       \/ cmdKind = "bufrd" /\ answer.error # "none"

\* the bytes, the fill flags and the mode are those of b
SameBuffer(b) ==
    /\ buf.mBuffer = b.mBuffer
    /\ buf.mParts = b.mParts
    /\ buf.mRead = b.mRead
    /\ ~b.mBuffer.null => (buf.mSize = b.mSize /\ buf.mPart = b.mPart
                           /\ buf.mLastPart = b.mLastPart)

\* C27: when 'create' or 'rd' fails it reports an error and leaves the
\* buffer as it was.
C27_FailedMakeKeepsBuffer ==
    MakeFailed => SameBuffer(cmdIn.before)

\* the same for an 'rd' whose file cannot be opened, and for any failure
\* when there was no buffer; in the other failures the buffer is released
C27_FailedOpenKeepsBuffer ==
    MakeFailed =>
        IF (cmdKind = "bufrd" /\ answer.error = "open")
           \/ cmdIn.before.mBuffer.null
        THEN SameBuffer(cmdIn.before)
        ELSE buf.mBuffer.null /\ buf.mParts.null

\* 'wr' or 'ota' has returned from a buffer that existed
CommitReturned ==
    /\ pc = "cmd_ret"
    /\ cmdKind \in {"bufwr", "ota"}
    /\ ~cmdIn.before.mBuffer.null

\* C28: when 'wr' or 'ota' fails the buffer is left unchanged, with or
\* without 'free'; after a commit that succeeded the buffer is released if
\* 'free' was given and is unchanged otherwise.
C28_FreeOnlyAfterSuccess ==
    CommitReturned =>
        IF answer.error = "none" /\ cmdIn.free
        THEN buf.mBuffer.null /\ buf.mParts.null
        ELSE SameBuffer(cmdIn.before)

\* the same for 'wr' alone; 'ota' releases the buffer whenever 'free' is
\* given
C28_WrFreesOnlyAfterSuccess ==
    CommitReturned =>
        IF (cmdKind = "ota" \/ answer.error = "none") /\ cmdIn.free
        THEN buf.mBuffer.null /\ buf.mParts.null
        ELSE SameBuffer(cmdIn.before)

\* the byte region and the fill flags are both absent
NoBufferIn(b) == b.mBuffer.null /\ b.mParts.null

\* C29: the byte region and the fill-flag array are both allocated or both
\* absent after every command of the buffer; while they are absent 'check',
\* 'wr', 'ota', 'free' and 'cancel' answer an error, and addData and getData
\* change nothing.
C29_RegionAndFlagsTogether ==
    /\ buf.mBuffer.null <=> buf.mParts.null
    /\ (pc = "cmd_ret" /\ cmdKind \in {"check", "bufwr", "ota", "free",
                                       "cancel"}
        /\ NoBufferIn(cmdIn.before))
          => (answer.error = "notCreated" /\ buf = cmdIn.before /\ fs = cmd0)
    /\ (pc = "cmd_ret" /\ cmdKind \in {"addData", "getData"}
        /\ NoBufferIn(cmdIn.before))
          => (buf = cmdIn.before /\ fs = cmd0)

C29_Witness ==
    /\ pc = "cmd_ret"
    /\ cmdKind = "bufrd"
    /\ answer.error = "read"
    /\ ~cmdIn.before.mBuffer.null
    /\ ~cmdIn.before.mParts.null
    /\ NoBufferIn(buf)

(***************************************************************************)
(* The list of write-event handlers.                                       *)
(***************************************************************************)
Occurrences(q, h) == Cardinality({ i \in 1..Len(q) : q[i] = h })

Registered(q) == { q[i] : i \in 1..Len(q) }

Precedes(q, g, h) == \E i, j \in 1..Len(q) : i < j /\ q[i] = g /\ q[j] = h

EachOnce(q) == \A h \in Handlers : Occurrences(q, h) <= 1

KeepsOrder(q, r) ==
    \A g, h \in Registered(q) \cap Registered(r) :
        Precedes(q, g, h) <=> Precedes(r, g, h)

\* what addWriteEvent(event) has to do to the list
Added(event) ==
    /\ Registered(mWriteQueue') = Registered(mWriteQueue) \cup {event}
    /\ EachOnce(mWriteQueue')
    /\ KeepsOrder(mWriteQueue, mWriteQueue')
    /\ IF event \in Registered(mWriteQueue)
       THEN mWriteQueue' = mWriteQueue
       ELSE mWriteQueue'[Len(mWriteQueue')] = event

\* what removeWriteEvent(event) has to do to the list
Removed(event) ==
    /\ Registered(mWriteQueue') = Registered(mWriteQueue) \ {event}
    /\ EachOnce(mWriteQueue')
    /\ KeepsOrder(mWriteQueue, mWriteQueue')

\* the handler calls of the running command that carried this lock value
CallsWith(tr, lock) == SelectSeq(tr, LAMBDA c : c # FsCall /\ c[2] = lock)

InListOrder(tr, lock) ==
    /\ Len(CallsWith(tr, lock)) = Len(mWriteQueue)
    /\ \A i \in 1..Len(mWriteQueue) :
          CallsWith(tr, lock)[i] = <<mWriteQueue[i], lock>>

\* C30: after any sequence of addWriteEvent and removeWriteEvent calls the
\* handler list holds each registered handler exactly once, in the order of
\* registration (adding a registered handler changes nothing, removing
\* deletes every occurrence and keeps the order of the others), and each
\* write event of a command calls every listed handler exactly once, in
\* list order, before the command returns.
C30_HandlerListOrdered ==
    /\ [](/\ EachOnce(mWriteQueue)
          /\ (pc = "cmd_ret" /\ trace # <<>>)
                => InListOrder(trace, TRUE) /\ InListOrder(trace, FALSE)
          /\ (caller \in {"end", "cancel"} /\ trace # <<>>)
                => InListOrder(trace, TRUE))
    /\ [][\A event \in Handlers :
             /\ AddWriteEvent(event) => Added(event)
             /\ RemoveWriteEvent(event) => Removed(event)]_vars

\* a 'ct' with the handlers registered in the order h2, h1: h2 is called
\* before h1 with true, and again before h1 with false
C30_Witness ==
    /\ pc = "cmd_ret"
    /\ cmdKind = "ct"
    /\ mWriteQueue = <<"h2", "h1">>
    /\ trace = <<<<"h2", TRUE>>, <<"h1", TRUE>>, FsCall,
                 <<"h2", FALSE>>, <<"h1", FALSE>>>>

(***************************************************************************)
(* The buffer between 'create' and its commit.                             *)
(***************************************************************************)
\* the bytes of part i in the region
PartBytes(b, i) ==
    SubSeq(b.mBuffer.bytes, i * b.mPart + 1,
           i * b.mPart + (IF i < b.mLastPart THEN b.mPart ELSE LastSize(b)))

\* C31: a buffer made by 'create' holds, for every index a packet was
\* accepted for, the payload of the last accepted packet with that index,
\* whatever the order and the repetition of the packets, and the fill flag
\* of that index is set.
C31_LastAcceptedPacketWins ==
    (buf.made = "create" /\ ~buf.mBuffer.null) =>
        \A i \in buf.accepted :
            /\ PartBytes(buf, i) = buf.last[i]
            /\ i \in buf.mParts.ones

\* part 0 is sent again with another payload after part 1 had been
\* accepted: the region holds the new payload
C31_Witness ==
    /\ AddDataReturned
    /\ answer.log = "rewrite"
    /\ cmdIn.part = 0
    /\ cmdIn.before.made = "create"
    /\ cmdIn.before.accepted = {0, 1}
    /\ cmdIn.before.last[0] # SubSeq(cmdIn.data, 3, Len(cmdIn.data))
    /\ PartBytes(buf, 0) = SubSeq(cmdIn.data, 3, Len(cmdIn.data))
    /\ PartBytes(buf, 1) = cmdIn.before.last[1]

(***************************************************************************)
(* A file loaded by 'rd' and drained by getData.                           *)
(***************************************************************************)
PartSize(b, i) == IF i < b.mLastPart THEN b.mPart ELSE LastSize(b)

\* the lengths of the parts 0 .. n - 1 together
RECURSIVE SizesBelow(_, _)
SizesBelow(b, n) ==
    IF n <= 0 THEN 0 ELSE SizesBelow(b, n - 1) + PartSize(b, n - 1)

\* the parts 0 .. n - 1 of the region one after the other
RECURSIVE PartsBelow(_, _)
PartsBelow(b, n) ==
    IF n <= 0 THEN <<>> ELSE PartsBelow(b, n - 1) \o PartBytes(b, n - 1)

BufRdReturned == pc = "cmd_ret" /\ cmdKind = "bufrd"

\* C32: 'rd' followed by getData until it returns nullptr is a round trip:
\* the k-th part returned starts where the parts returned before it end and
\* holds the bytes of the file at that place, and when nothing is left the
\* parts returned, in the order returned, are the bytes of the file and
\* their lengths add up to the size of the file.
C32_RdThenDrainIsRoundTrip ==
    /\ (BufRdReturned /\ answer.error = "none") =>
          /\ buf.file = cmd0[cmdIn.name]
          /\ buf.mBuffer.bytes = cmd0[cmdIn.name]
          /\ buf.mSize = Len(cmd0[cmdIn.name])
    /\ (GetDataReturned /\ cmdIn.before.made = "rd"
        /\ ~cmdIn.before.mBuffer.null) =>
          IF answer.res
          THEN /\ cmdIn.before.given = 0..(answer.index - 1)
               /\ answer.offset = SizesBelow(cmdIn.before, answer.index)
               /\ answer.size = PartSize(cmdIn.before, answer.index)
               /\ SubSeq(buf.mBuffer.bytes, answer.offset + 1,
                         answer.offset + answer.size)
                  = SubSeq(buf.file, answer.offset + 1,
                           answer.offset + answer.size)
          ELSE /\ cmdIn.before.given = 0..buf.mLastPart
               /\ PartsBelow(buf, buf.mLastPart + 1) = buf.file
               /\ SizesBelow(buf, buf.mLastPart + 1) = Len(buf.file)

\* the file 1, 2 was loaded in parts of one byte, both parts have been
\* handed out, and getData returns nullptr
C32_Witness ==
    /\ GetDataReturned
    /\ ~answer.res
    /\ cmdIn.before.made = "rd"
    /\ ~cmdIn.before.mBuffer.null
    /\ cmdIn.before.file = <<1, 2>>
    /\ cmdIn.before.mPart = 1
    /\ cmdIn.before.given = {0, 1}

(***************************************************************************)
(* getData and a buffer made by 'create'.                                  *)
(***************************************************************************)
\* C33: for a buffer made by 'create' getData returns nullptr and changes
\* no fill flag, however many parts addData has filled, also when a buffer
\* had been loaded from a file before.
C33_GetDataOnlyFromLoadedBuffer ==
    (GetDataReturned /\ cmdIn.before.made = "create"
     /\ ~cmdIn.before.mBuffer.null) =>
        /\ ~answer.res
        /\ buf.mParts = cmdIn.before.mParts
        /\ buf.mBuffer = cmdIn.before.mBuffer

\* a buffer of two parts was made by 'create' while the file f exists, and
\* both parts have been filled: getData returns nullptr
C33_Witness ==
    /\ GetDataReturned
    /\ ~answer.res
    /\ cmdIn.before.made = "create"
    /\ ~cmdIn.before.mBuffer.null
    /\ Exists(fs, <<"f">>)
    /\ cmdIn.before.mLastPart = 1
    /\ cmdIn.before.mParts.ones = {0, 1}
    /\ buf.mParts.ones = {0, 1}

(***************************************************************************)
(* getData of a loaded buffer while packets arrive.                        *)
(***************************************************************************)
\* C34: each part of a buffer loaded by 'rd' is handed out by getData at
\* most once per load, and with the bytes read from the file, whatever
\* getData, 'check' and addData calls come in between.
C34_LoadedPartHandedOnceUnchanged ==
    (GetDataReturned /\ cmdIn.before.made = "rd"
     /\ ~cmdIn.before.mBuffer.null /\ answer.res) =>
        /\ answer.index \notin cmdIn.before.given
        /\ SubSeq(buf.mBuffer.bytes, answer.offset + 1,
                  answer.offset + answer.size)
           = SubSeq(buf.file, answer.offset + 1, answer.offset + answer.size)

(***************************************************************************)
(* 'trans':'end' with a 'clear' list of one directory.                     *)
(***************************************************************************)
\* the command has run clearDir and endTransaction without power loss and
\* is about to return; cmd0 is the filesystem it started on
TransEndCleared ==
    /\ pc = "et_ret"
    /\ caller = "end"
    /\ cmdKind = "end"
    /\ Len(cmdClear) = 1
    /\ crashes = 0

InDirectory(dir, str) == dir \o <<"/">> \o str

\* the names of dir that had a staged-rename file when the command began
StagedIn(f, dir) ==
    { ChopLast(e) : e \in { k \in DirEntries(f, dir) :
                              Len(k) > 1 /\ LastChar(k) = "$" } }

\* files outside dir without a staged file of their own
Bystanders(f, dir) ==
    { n \in Files(f) :
        /\ n # Marker
        /\ Plain(n)
        /\ n \notin { InDirectory(dir, e) : e \in DirEntries(f, dir) }
        /\ ~Exists(f, RenameFileOf(n))
        /\ ~Exists(f, DeleteFileOf(n)) }

ClearedTo(dir, names) ==
    /\ DirEntries(fs, dir) = names
    /\ \A e \in StagedIn(cmd0, dir) :
          /\ Exists(fs, InDirectory(dir, e))
          /\ fs[InDirectory(dir, e)] = cmd0[InDirectory(dir, e \o <<"$">>)]
    /\ \A n \in Bystanders(cmd0, dir) : Exists(fs, n) /\ fs[n] = cmd0[n]

\* C35: after 'trans':'end' with 'clear':[d] the directory d holds exactly
\* the files that had a staged-rename file name$ in d before the command,
\* each with its staged content; every other file of d is gone, and the
\* files outside d that have no staged file are as they were.
C35_ClearLeavesStagedOnly ==
    TransEndCleared => ClearedTo(cmdClear[1], StagedIn(cmd0, cmdClear[1]))

\* the same for a filesystem of ordinary names with at most one reserved
\* suffix, except that the files of d with a name of one character stay
C35_ClearLeavesStagedAndShortNames ==
    (TransEndCleared /\ Ordinary(cmd0)) =>
        ClearedTo(cmdClear[1],
                  StagedIn(cmd0, cmdClear[1])
                  \cup { e \in DirEntries(cmd0, cmdClear[1]) :
                           Len(e) = 1 /\ Plain(e) })

(***************************************************************************)
(* A name with both a staged-delete and a staged-rename file.              *)
(***************************************************************************)
\* endTransaction found the marker and has returned; snap is the
\* filesystem it started on
ReplayReturned == pc = "et_ret" /\ opened /\ Exists(snap, Marker)

\* the names, present or not, that have both staged files
StagedBoth(f) ==
    { n \in { ChopLast(m) : m \in { k \in Files(f) : Len(k) > 1 } } :
        Plain(n) /\ Exists(f, DeleteFileOf(n)) /\ Exists(f, RenameFileOf(n)) }

\* C36: if, with the marker present, a name has both a staged-delete file
\* name! and a staged-rename file name$, endTransaction ends with name
\* holding the content of name$ and with both staged files gone, in
\* whatever order the directory gives its entries (the names being
\* ordinary names with at most one reserved suffix).
C36_DeleteThenRenameKeepsStaged ==
    (ReplayReturned /\ Ordinary(snap)) =>
        \A n \in StagedBoth(snap) :
            /\ Exists(fs, n)
            /\ fs[n] = snap[RenameFileOf(n)]
            /\ ~Exists(fs, DeleteFileOf(n))
            /\ ~Exists(fs, RenameFileOf(n))

\* the marker, a (empty), a! and a$ (one byte) were there: a now holds the
\* byte
C36_Witness ==
    /\ ReplayReturned
    /\ Files(snap) = { Marker, <<"a">>, <<"a", "!">>, <<"a", "$">> }
    /\ snap[<<"a">>] = <<>>
    /\ snap[<<"a", "$">>] = <<1>>
    /\ Files(fs) = { <<"a">> }
    /\ fs[<<"a">>] = <<1>>

(***************************************************************************)
(* Command 'old'/'new' and the data of the source.                         *)
(***************************************************************************)
SourceKept ==
    IF answer.error = "none" /\ ~answer.warning
    THEN /\ Exists(fs, cmdIn.new)
         /\ fs[cmdIn.new] = cmd0[cmdIn.old]
    ELSE /\ Exists(fs, cmdIn.old)
         /\ fs[cmdIn.old] = cmd0[cmdIn.old]

\* C37: a rename never destroys the data of the source: after the command
\* the content the source had is under the new name when success is
\* reported and under the old name when an error or a warning is reported,
\* for every pair of paths, old = new included.
C37_RenameKeepsSourceData ==
    (RenameReturned /\ Exists(cmd0, cmdIn.old)) => SourceKept

\* the same for two different paths
C37_RenameKeepsSourceDataOldNotNew ==
    (RenameReturned /\ Exists(cmd0, cmdIn.old) /\ cmdIn.old # cmdIn.new)
        => SourceKept

(***************************************************************************)
(* C38: update(), the path of the buffer command 'ota', leaves            *)
(* update_handle = 0 and offset = 0 and no session of the library open    *)
(* on every return, whatever session a chunked 'ota' command had begun;   *)
(* and a chunked 'ota' command that finds update_handle = 0 and reports   *)
(* an offset reports the length of its own data, written to a session     *)
(* begun for it.                                                           *)
(***************************************************************************)
UpdateReturned ==
    /\ pc = "cmd_ret"
    /\ cmdKind = "ota"
    /\ ~cmdIn.before.mBuffer.null

ChunkReported ==
    /\ pc = "cmd_ret"
    /\ cmdKind = "otacmd"
    /\ answer.reported

C38_UpdateLeavesNoSession ==
    /\ UpdateReturned => ota = NoSession
    /\ ota.update_handle = 0 => ota = NoSession
    /\ ChunkReported /\ cmdIn.before.update_handle = 0 =>
          /\ answer.offset = cmdIn.data.len
          /\ cmdIn.mode # "end" =>
                ota = [update_handle |-> 1, offset |-> cmdIn.data.len,
                       open |-> TRUE, written |-> cmdIn.data.len]

\* update() ran while a chunked session with bytes written was open
C38_Witness ==
    /\ UpdateReturned
    /\ cmdIn.session.update_handle # 0
    /\ cmdIn.session.offset > 0
    /\ cmdIn.session.open
(***************************************************************************)
(* The top-level objects of a byte stream.                                 *)
(***************************************************************************)
\* braces open after the first k bytes; a closing brace outside an object
\* closes nothing
RECURSIVE Depth(_, _)
Depth(s, k) ==
    IF k = 0 THEN 0
    ELSE LET d == Depth(s, k - 1)
         IN IF s[k] = LBrace THEN d + 1
            ELSE IF s[k] = RBrace /\ d > 0 THEN d - 1
            ELSE d

\* the places where a top-level object ends, and where that object began
ObjectEnds(s) ==
    { b \in 1..Len(s) : s[b] = RBrace /\ Depth(s, b - 1) = 1 }

ObjectStart(s, b) ==
    CHOOSE a \in 1..b :
        /\ s[a] = LBrace
        /\ Depth(s, a - 1) = 0
        /\ \A k \in a..(b - 1) : Depth(s, k) > 0

\* the brace-balanced substrings that end within the first k bytes, in the
\* order in which they end
RECURSIVE ObjectsUpTo(_, _)
ObjectsUpTo(s, k) ==
    IF k = 0 THEN <<>>
    ELSE IF k \in ObjectEnds(s)
         THEN Append(ObjectsUpTo(s, k - 1), SubSeq(s, ObjectStart(s, k), k))
         ELSE ObjectsUpTo(s, k - 1)

TopLevel(s) == ObjectsUpTo(s, Len(s))

ShortObjects(s, size) ==
    \A n \in 1..Len(TopLevel(s)) : Len(TopLevel(s)[n]) < size

\* what get() has returned and will return, in that order
Returned(j) == j.got \o j.mStrings

\* the strings queued when each object of the list is one add() call
RECURSIVE AddEach(_, _)
AddEach(j, objects) ==
    IF objects = <<>> THEN j
    ELSE AddEach(Add(j, Head(objects)), Tail(objects))

WholeArrival(j) ==
    AddEach([NoStream EXCEPT !.made = TRUE, !.mSize = j.mSize,
                             !.mFree = j.mFree],
            TopLevel(j.stream)).mStrings

\* an object as a C string: its bytes before its first 0
CutAtNul(object) ==
    CStr([k \in 0..Len(object) |->
             IF k < Len(object) THEN object[k + 1] ELSE Nul])

HasNul(object) == \E k \in 1..Len(object) : object[k] = Nul

\* C39: whatever the bytes and however they are split into add() calls, if
\* every top-level object is shorter than max_size then the strings get()
\* returns are, in order, the top-level brace-balanced substrings of the
\* stream, the same as when each object is one add() call.
C39_FragmentationInsensitive ==
    js.made /\ ShortObjects(js.stream, js.mSize) =>
        /\ Returned(js) = TopLevel(js.stream)
        /\ Returned(js) = WholeArrival(js)

\* C39 as the code has it: each returned string is the substring up to its
\* first 0 byte.
C39_FragmentationInsensitiveCStrings ==
    js.made /\ ShortObjects(js.stream, js.mSize) =>
        /\ Returned(js) =
              [n \in 1..Len(TopLevel(js.stream)) |->
                  CutAtNul(TopLevel(js.stream)[n])]
        /\ Returned(js) = WholeArrival(js)
\* two strings were returned by get(), one of them put together from
\* several add() calls, and one of the objects holds a 0 byte
C39_Witness ==
    /\ js.made
    /\ ShortObjects(js.stream, js.mSize)
    /\ Len(js.got) = 2
    /\ js.joined >= 1
    /\ \E n \in 1..2 : HasNul(TopLevel(js.stream)[n])
====
